---- MODULE Spec2Model ----
(***************************************************************************)
(* STEP AP214 export of a triangle mesh (package step): the MeshConverter *)
(* that turns a triangle sequence into an ordered list of STEP entities.  *)
(* The Writer that puts the entity list into a file, the StreamWriter     *)
(* that collects triangle batches from a queue, and the export entry      *)
(* points ToSTEPWithOptions and SaveSTEPWithOptions are modelled too.      *)
(*                                                                         *)
(* Coordinates are integers counting grid steps; one grid step is Grid    *)
(* units of 1e-9, and every tolerance is written in units of 1e-9 (so the *)
(* source's 1e-6 is 1000 and its 1e-9 is 1).  All comparisons are done in *)
(* exact integer arithmetic that stays below 2^31.  Directions are        *)
(* normalized in floating point, rounded as the machine rounds.           *)
(***************************************************************************)
EXTENDS Integers, Sequences, FiniteSets, TLC

\* ------------------------------------------------------------------ bounds

\* grid steps are Grid * 1e-9 wide
Grid == 250
\* longest mesh handed to ConvertMesh
MaxTris == 2
\* number of ConvertMesh calls made on one MeshConverter
MaxCalls == 2

\* number of batches a producer enqueues
MaxBatches == 2

\* helper operations called one by one on a converter
MaxHelperCalls == 2

\* significant bits of a floating-point number (float64 has 53)
MantissaBits == 12

\* ------------------------------------------------------- program constants

\* getOrCreatePoint: const tolerance = 1e-6
tolerance == 1000
\* ConvertMesh / OptimizeMesh: triangle.Degenerate(1e-9)
DegenerateTolerance == 1
\* ConvertMesh: the uncertainty's Value: 1e-6
DistanceAccuracy == 1000

\* NewStreamWriter / writeSTEP: make(chan []*sdf.Triangle3, 100)
QueueCapacity == 100

\* --------------------------------------------------------------- vec/v3

Vec(x, y, z) == [X |-> x, Y |-> y, Z |-> z]

Abs(n) == IF n < 0 THEN -n ELSE n

Sub(a, b) == Vec(a.X - b.X, a.Y - b.Y, a.Z - b.Z)

Cross(a, b) == Vec(a.Y * b.Z - a.Z * b.Y, a.Z * b.X - a.X * b.Z, a.X * b.Y - a.Y * b.X)

\* squared Euclidean length, in grid steps squared
Length2(a) == a.X * a.X + a.Y * a.Y + a.Z * a.Z

\* |a| <= lim (lim in grid steps), without leaving 32 bits
WithinLength(a, lim) ==
    /\ Abs(a.X) <= lim /\ Abs(a.Y) <= lim /\ Abs(a.Z) <= lim
    /\ a.X * a.X <= lim * lim
    /\ a.X * a.X + a.Y * a.Y <= lim * lim
    /\ a.Z * a.Z <= lim * lim - (a.X * a.X + a.Y * a.Y)

\* Vec.Equals(b, tol): the two points are at most tol apart (tol in 1e-9)
Equals(a, b, tol) ==
    LET d == Sub(a, b)
    IN  /\ Abs(d.X) * Grid <= tol /\ Abs(d.Y) * Grid <= tol /\ Abs(d.Z) * Grid <= tol
        /\ Grid * Grid * Length2(d) <= tol * tol

\* ---- floating point
\* Points lie on the grid and their differences and products are exact, as
\* they are in float64 for values this small.  A square root or a quotient
\* is not exact: float64 rounds it to the nearest value of 53 significant
\* bits.  The model keeps that rounding (nearest, ties to even) at
\* MantissaBits significant bits.  A float is a record [m, e] standing for
\* m * 2^e with 2^(MantissaBits-1) <= |m| < 2^MantissaBits, or zero.

Zero == [m |-> 0, e |-> 0]

\* NaN (0 * Inf): Normalize gives it for the zero vector
NaN == [m |-> 0, e |-> 1]

RECURSIVE BitLen(_)
\* the number of bits of n > 0
BitLen(n) ==
    IF n < 2 THEN 1
    ELSE IF n < 256 THEN 1 + BitLen(n \div 2)
    ELSE 8 + BitLen(n \div 256)

\* a divided by unit, rounded to the nearest whole number, ties to even
NearestEven(a, unit) ==
    IF 2 * (a % unit) > unit \/ (2 * (a % unit) = unit /\ (a \div unit) % 2 = 1)
    THEN (a \div unit) + 1
    ELSE a \div unit

\* a mantissa that rounding has carried up to 2^MantissaBits is halved
Carry(m, e) ==
    IF Abs(m) = 2^MantissaBits THEN [m |-> m \div 2, e |-> e + 1] ELSE [m |-> m, e |-> e]

\* Round for n # 0 of len bits
RoundBits(n, e, len) ==
    IF len <= MantissaBits
    THEN [m |-> n * 2^(MantissaBits - len), e |-> e - (MantissaBits - len)]
    ELSE Carry((IF n < 0 THEN -1 ELSE 1) * NearestEven(Abs(n), 2^(len - MantissaBits)),
               e + (len - MantissaBits))

\* the float nearest to n * 2^e, ties to the even mantissa
Round(n, e) == IF n = 0 THEN Zero ELSE RoundBits(n, e, BitLen(Abs(n)))

\* float64(n) for an integer n
Float(n) == Round(n, 0)

\* the float 1
One == [m |-> 2^(MantissaBits - 1), e |-> 1 - MantissaBits]

\* the product of two mantissas has 2 * MantissaBits bits, or one less
RoundProduct(n, e) ==
    RoundBits(n, e, IF Abs(n) < 2^(2 * MantissaBits - 1)
                    THEN 2 * MantissaBits - 1 ELSE 2 * MantissaBits)

FMul(a, b) == IF a.m = 0 \/ b.m = 0 THEN Zero ELSE RoundProduct(a.m * b.m, a.e + b.e)

\* hi + lo for hi.e >= lo.e: a lo below the last place of hi changes nothing
AddAligned(hi, lo) ==
    IF hi.e - lo.e > MantissaBits + 1
    THEN hi
    ELSE Round(hi.m * 2^(hi.e - lo.e) + lo.m, lo.e)

FAdd(a, b) ==
    IF a.m = 0 THEN b
    ELSE IF b.m = 0 THEN a
    ELSE IF a.e >= b.e THEN AddAligned(a, b) ELSE AddAligned(b, a)

\* s or s + 1, whichever is the integer part of the square root of n
ISqrtStep(s, n) == IF (s + 1) * (s + 1) <= n THEN s + 1 ELSE s

RECURSIVE ISqrt(_)
\* the integer part of the square root of n
ISqrt(n) == IF n < 2 THEN n ELSE ISqrtStep(2 * ISqrt(n \div 4), n)

\* the float nearest to the square root of n times 2^e, s being the integer
\* part of the root, of MantissaBits + 1 bits: a last bit records whether s
\* is the whole root
RoundRoot(s, n, e) ==
    RoundBits(2 * s + (IF s * s = n THEN 0 ELSE 1), e - 1, MantissaBits + 2)

\* the square root of a.m * 2^k times 2^(a.e - k), for a.e - k even
SqrtShifted(a, k) == RoundRoot(ISqrt(a.m * 2^k), a.m * 2^k, (a.e - k) \div 2)

\* math.Sqrt of a float a >= 0, correctly rounded: the root is taken of an
\* integer long enough to leave one bit more than the mantissa
FSqrt(a) ==
    IF a.m = 0 THEN a
    ELSE IF (a.e - (MantissaBits + 1)) % 2 = 0
         THEN SqrtShifted(a, MantissaBits + 1)
         ELSE SqrtShifted(a, MantissaBits + 2)

\* Round for n of MantissaBits + 2 or MantissaBits + 3 bits
RoundLong(n, e) ==
    RoundBits(n, e, IF n < 2^(MantissaBits + 2) THEN MantissaBits + 2 ELSE MantissaBits + 3)

\* the float nearest to n / d times 2^e, for a mantissa d and n a mantissa
\* times 2^(MantissaBits + 1): a last bit records whether the division left
\* a remainder
RoundQuotient(n, d, e) ==
    RoundLong(2 * (n \div d) + (IF n % d = 0 THEN 0 ELSE 1), e - 1)

Negate(a) == [m |-> -a.m, e |-> a.e]

\* a / b for floats, b # 0, correctly rounded
FDiv(a, b) ==
    IF a.m = 0 THEN a
    ELSE IF (a.m < 0) = (b.m < 0)
         THEN RoundQuotient(Abs(a.m) * 2^(MantissaBits + 1), Abs(b.m),
                            a.e - b.e - (MantissaBits + 1))
         ELSE Negate(RoundQuotient(Abs(a.m) * 2^(MantissaBits + 1), Abs(b.m),
                                   a.e - b.e - (MantissaBits + 1)))

\* a vector of floats given by three integers (a literal v3.Vec{x, y, z})
FVec(x, y, z) == Vec(Float(x), Float(y), Float(z))

\* a grid vector as a vector of floats
Float3(a) == FVec(a.X, a.Y, a.Z)

NaNVec == Vec(NaN, NaN, NaN)

\* Vec.Dot
Dot(a, b) == FAdd(FAdd(FMul(a.X, b.X), FMul(a.Y, b.Y)), FMul(a.Z, b.Z))

\* Vec.MulScalar
MulScalar(a, b) == Vec(FMul(a.X, b), FMul(a.Y, b), FMul(a.Z, b))

\* a.MulScalar(1 / len).  For len = 0, 1/0 is +Inf and 0 * Inf is NaN.
ScaleToUnit(a, len) ==
    IF a = NaNVec \/ len = Zero THEN NaNVec ELSE MulScalar(a, FDiv(One, len))

\* Vec.Normalize: a.MulScalar(1 / a.Length()), each step rounded
Normalize(a) == ScaleToUnit(a, FSqrt(Dot(a, a)))

\* Vec.Length, carried as its square (exact on the grid)
Length(a) == Length2(a)

\* ------------------------------------------------------------ sdf.Triangle3

\* a triangle is a sequence of three points: t[1], t[2], t[3] are the
\* source's t[0], t[1], t[2]
Normal(t) == Normalize(Float3(Cross(Sub(t[2], t[1]), Sub(t[3], t[1]))))

\* largest |cross product| (grid steps squared) of a triangle whose area is
\* at most tol * 1e-9:  |cross| * Grid^2 * 1e-18 / 2 <= tol * 1e-9
AreaLimit(tol) == (2000000000 \div (Grid * Grid)) * tol

\* Triangle3.Degenerate(tol): squared area or a squared edge length is at
\* most tol squared
Degenerate(t, tol) ==
    \/ Equals(t[1], t[2], tol)
    \/ Equals(t[2], t[3], tol)
    \/ Equals(t[3], t[1], tol)
    \/ WithinLength(Cross(Sub(t[2], t[1]), Sub(t[3], t[1])), AreaLimit(tol))

\* ------------------------------------------------------------- entities

\* every entity starts with the zero id of BaseEntity; addEntity sets it
ApplicationContext(app) == [kind |-> "APPLICATION_CONTEXT", id |-> 0, Application |-> app]

LengthUnit == [kind |-> "LENGTH_UNIT", id |-> 0]

PlaneAngleUnit == [kind |-> "PLANE_ANGLE_UNIT", id |-> 0]

SolidAngleUnit == [kind |-> "SOLID_ANGLE_UNIT", id |-> 0]

UncertaintyMeasureWithUnit(value, unit, nm, descr) ==
    [kind |-> "UNCERTAINTY_MEASURE_WITH_UNIT", id |-> 0, Value |-> value, Unit |-> unit,
     Name |-> nm, Description |-> descr]

GeometricRepresentationContext(dim, uncertainty, units) ==
    [kind |-> "GEOMETRIC_REPRESENTATION_CONTEXT", id |-> 0, ContextIdentifier |-> "",
     ContextType |-> "3D", CoordinateSpaceDimension |-> dim,
     Uncertainty |-> uncertainty, Units |-> units]

ProductContext(frame) ==
    [kind |-> "PRODUCT_CONTEXT", id |-> 0, Name |-> "", FrameOfReference |-> frame,
     DisciplineType |-> "mechanical"]

Product(nm, frames) ==
    [kind |-> "PRODUCT", id |-> 0, Name |-> nm, Description |-> "Generated from sdfx",
     FrameOfReference |-> frames]

ProductDefinitionFormation(product) ==
    [kind |-> "PRODUCT_DEFINITION_FORMATION", id |-> 0, Description |-> "", OfProduct |-> product]

ProductDefinitionContext(frame) ==
    [kind |-> "PRODUCT_DEFINITION_CONTEXT", id |-> 0, Name |-> "", FrameOfReference |-> frame,
     LifeCycleStage |-> "design"]

ProductDefinition(formation, frame) ==
    [kind |-> "PRODUCT_DEFINITION", id |-> 0, Description |-> "", Formation |-> formation,
     FrameOfReference |-> frame]

ProductDefinitionShape(definition) ==
    [kind |-> "PRODUCT_DEFINITION_SHAPE", id |-> 0, Name |-> "", Description |-> "",
     Definition |-> definition]

ShapeDefinitionRepresentation(definition, used) ==
    [kind |-> "SHAPE_DEFINITION_REPRESENTATION", id |-> 0, Definition |-> definition,
     UsedRepresentation |-> used]

AdvancedBrepShapeRepresentation(items, context) ==
    [kind |-> "ADVANCED_BREP_SHAPE_REPRESENTATION", id |-> 0, Name |-> "", Items |-> items,
     ContextOfItems |-> context]

ManifoldSolidBrep(outer) == [kind |-> "MANIFOLD_SOLID_BREP", id |-> 0, Name |-> "", Outer |-> outer]

ClosedShell(faces) == [kind |-> "CLOSED_SHELL", id |-> 0, Name |-> "", Faces |-> faces]

AdvancedFace(bounds, geometry) ==
    [kind |-> "ADVANCED_FACE", id |-> 0, Name |-> "", Bounds |-> bounds,
     FaceGeometry |-> geometry, SameSense |-> TRUE]

FaceOuterBound(loop) ==
    [kind |-> "FACE_OUTER_BOUND", id |-> 0, Name |-> "", Bound |-> loop, Orientation |-> TRUE]

EdgeLoop(edges) == [kind |-> "EDGE_LOOP", id |-> 0, Name |-> "", EdgeList |-> edges]

OrientedEdge(edge) ==
    [kind |-> "ORIENTED_EDGE", id |-> 0, Name |-> "", EdgeElement |-> edge, Orientation |-> TRUE]

EdgeCurve(start, end, geometry) ==
    [kind |-> "EDGE_CURVE", id |-> 0, Name |-> "", EdgeStart |-> start, EdgeEnd |-> end,
     EdgeGeometry |-> geometry, SameSense |-> TRUE]

VertexPoint(point) == [kind |-> "VERTEX_POINT", id |-> 0, Name |-> "", VertexGeometry |-> point]

CartesianPoint(p) ==
    [kind |-> "CARTESIAN_POINT", id |-> 0, Name |-> "", Coordinates |-> <<p.X, p.Y, p.Z>>]

Direction(d) ==
    [kind |-> "DIRECTION", id |-> 0, Name |-> "", DirectionRatios |-> <<d.X, d.Y, d.Z>>]

Vector(dir, magnitude) ==
    [kind |-> "VECTOR", id |-> 0, Name |-> "", Orientation |-> dir, Magnitude |-> magnitude]

Axis2Placement3D(location, axis, refDirection) ==
    [kind |-> "AXIS2_PLACEMENT_3D", id |-> 0, Name |-> "", Location |-> location,
     Axis |-> axis, RefDirection |-> refDirection]

Line(pnt, dir) == [kind |-> "LINE", id |-> 0, Name |-> "", Pnt |-> pnt, Dir |-> dir]

Plane(position) == [kind |-> "PLANE", id |-> 0, Name |-> "", Position |-> position]

\* ------------------------------------------------------------ MeshConverter

\* A converter value is the record of the MeshConverter's fields.  Maps are
\* functions whose domain is the set of keys.  lookups is a history field:
\* the <<point, id>> pairs getOrCreatePoint has answered in this conversion.
\* array names the backing array of entities: the number of the make() that
\* allocated the list (two lists of the same array share their elements).
EmptyMap == [k \in {} |-> 0]

NewMeshConverter ==
    [entities |-> <<>>, idCounter |-> 1, pointCache |-> EmptyMap, edgeCache |-> EmptyMap,
     normalCache |-> EmptyMap, lookups |-> {}, array |-> 0]

\* an operation's outcome: the converter afterwards and the id it returns
Out(mc, id) == [c |-> mc, id |-> id]

\* newEdgeKey without the ordering of the two vertices
newEdgeKey_asGiven(v1, v2) == [v1 |-> v1, v2 |-> v2]

newEdgeKey(v1, v2) ==
    IF \/ v1.X < v2.X
       \/ (v1.X = v2.X /\ v1.Y < v2.Y)
       \/ (v1.X = v2.X /\ v1.Y = v2.Y /\ v1.Z < v2.Z)
    THEN [v1 |-> v1, v2 |-> v2]
    ELSE [v1 |-> v2, v2 |-> v1]

\* addEntity without the idCounter++
addEntity_noIncrement(mc, e) ==
    Out([mc EXCEPT !.entities = Append(@, [e EXCEPT !.id = mc.idCounter])], mc.idCounter)

addEntity(mc, e) ==
    Out([mc EXCEPT !.entities = Append(@, [e EXCEPT !.id = mc.idCounter]),
                   !.idCounter = @ + 1],
        mc.idCounter)

\* The range over the map visits the keys in an order the runtime picks
\* anew each time, so any cached point within the tolerance may be the one
\* returned: the operation has a set of outcomes.
\* getOrCreatePoint looking the point up by its exact key only
getOrCreatePoint_exactKey(mc, p) ==
    IF p \in DOMAIN mc.pointCache
    THEN {Out([mc EXCEPT !.lookups = @ \cup {<<p, mc.pointCache[p]>>}], mc.pointCache[p])}
    ELSE LET r == addEntity(mc, CartesianPoint(p))
         IN  {Out([r.c EXCEPT !.pointCache = (p :> r.id) @@ @,
                              !.lookups = @ \cup {<<p, r.id>>}],
                  r.id)}

\* getOrCreatePoint comparing the X coordinates only
getOrCreatePoint_onlyX(mc, p) ==
    LET hits == {cached \in DOMAIN mc.pointCache : Abs(cached.X - p.X) * Grid <= tolerance}
    IN  IF hits # {}
        THEN {Out([mc EXCEPT !.lookups = @ \cup {<<p, mc.pointCache[cached]>>}],
                  mc.pointCache[cached]) : cached \in hits}
        ELSE LET r == addEntity(mc, CartesianPoint(p))
             IN  {Out([r.c EXCEPT !.pointCache = (p :> r.id) @@ @,
                                  !.lookups = @ \cup {<<p, r.id>>}],
                      r.id)}

getOrCreatePoint(mc, p) ==
    LET hits == {cached \in DOMAIN mc.pointCache : Equals(cached, p, tolerance)}
    IN  IF hits # {}
        THEN {Out([mc EXCEPT !.lookups = @ \cup {<<p, mc.pointCache[cached]>>}],
                  mc.pointCache[cached]) : cached \in hits}
        ELSE LET r == addEntity(mc, CartesianPoint(p))
             IN  {Out([r.c EXCEPT !.pointCache = (p :> r.id) @@ @,
                                  !.lookups = @ \cup {<<p, r.id>>}],
                      r.id)}

\* getOrCreateDirection caching the value of the counter after the entity
\* was added
lookupDirection_cachesCounter(mc, d) ==
    IF d \in DOMAIN mc.normalCache /\ d # NaNVec
    THEN Out(mc, mc.normalCache[d])
    ELSE LET r == addEntity(mc, Direction(d))
         IN  Out([r.c EXCEPT !.normalCache = (d :> r.c.idCounter) @@ @], r.id)

\* getOrCreateDirection after its first line: d is the normalized direction
lookupDirection(mc, d) ==
    IF d \in DOMAIN mc.normalCache /\ d # NaNVec
    THEN Out(mc, mc.normalCache[d])
    ELSE LET r == addEntity(mc, Direction(d))
         IN  Out([r.c EXCEPT !.normalCache = (d :> r.id) @@ @], r.id)

getOrCreateDirection(mc, d0) == lookupDirection(mc, Normalize(d0))

createAxis2Placement(mc, origin, zAxis, xAxis) ==
    { LET a == getOrCreateDirection(l.c, zAxis)
          r == getOrCreateDirection(a.c, xAxis)
      IN  addEntity(r.c, Axis2Placement3D(l.id, a.id, r.id))
      : l \in getOrCreatePoint(mc, origin) }

\* createVertexPoint storing the vertex's own id as its geometry
createVertexPoint_ownId(mc, p) ==
    { addEntity(pt.c, VertexPoint(pt.c.idCounter)) : pt \in getOrCreatePoint(mc, p) }

createVertexPoint(mc, p) ==
    { addEntity(pt.c, VertexPoint(pt.id)) : pt \in getOrCreatePoint(mc, p) }

\* createEdgeCurve without the store into the edge cache
createEdgeCurve_notCached(mc, v1, v2) ==
    LET key == newEdgeKey(v1, v2)
    IN  IF key \in DOMAIN mc.edgeCache
        THEN {Out(mc, mc.edgeCache[key])}
        ELSE UNION { UNION { {
                 LET dir    == getOrCreateDirection(start.c, Normalize(Float3(Sub(v2, v1))))
                     vector == addEntity(dir.c, Vector(dir.id, Length(Sub(v2, v1))))
                     line   == addEntity(vector.c, Line(start.id, vector.id))
                     edge   == addEntity(line.c, EdgeCurve(vertex1.id, vertex2.id, line.id))
                 IN  Out(edge.c, edge.id)
                 : start \in getOrCreatePoint(vertex2.c, v1) }
               : vertex2 \in createVertexPoint(vertex1.c, v2) }
             : vertex1 \in createVertexPoint(mc, v1) }

\* createEdgeCurve with the two vertices of the EDGE_CURVE exchanged
createEdgeCurve_swappedEnds(mc, v1, v2) ==
    LET key == newEdgeKey(v1, v2)
    IN  IF key \in DOMAIN mc.edgeCache
        THEN {Out(mc, mc.edgeCache[key])}
        ELSE UNION { UNION { {
                 LET dir    == getOrCreateDirection(start.c, Normalize(Float3(Sub(v2, v1))))
                     vector == addEntity(dir.c, Vector(dir.id, Length(Sub(v2, v1))))
                     line   == addEntity(vector.c, Line(start.id, vector.id))
                     edge   == addEntity(line.c, EdgeCurve(vertex2.id, vertex1.id, line.id))
                 IN  Out([edge.c EXCEPT !.edgeCache = (key :> edge.id) @@ @], edge.id)
                 : start \in getOrCreatePoint(vertex2.c, v1) }
               : vertex2 \in createVertexPoint(vertex1.c, v2) }
             : vertex1 \in createVertexPoint(mc, v1) }

createEdgeCurve(mc, v1, v2) ==
    LET key == newEdgeKey(v1, v2)
    IN  IF key \in DOMAIN mc.edgeCache
        THEN {Out(mc, mc.edgeCache[key])}
        ELSE UNION { UNION { {
                 LET dir    == getOrCreateDirection(start.c, Normalize(Float3(Sub(v2, v1))))
                     vector == addEntity(dir.c, Vector(dir.id, Length(Sub(v2, v1))))
                     line   == addEntity(vector.c, Line(start.id, vector.id))
                     edge   == addEntity(line.c, EdgeCurve(vertex1.id, vertex2.id, line.id))
                 IN  Out([edge.c EXCEPT !.edgeCache = (key :> edge.id) @@ @], edge.id)
                 : start \in getOrCreatePoint(vertex2.c, v1) }
               : vertex2 \in createVertexPoint(vertex1.c, v2) }
             : vertex1 \in createVertexPoint(mc, v1) }

\* createTriangleFace listing the three oriented edges in the opposite order
createTriangleFace_reversedLoop(mc, t) ==
    LET v0 == t[1]
        v1 == t[2]
        v2 == t[3]
    IN  UNION { UNION { UNION {
            LET oe1   == addEntity(edge3.c, OrientedEdge(edge1.id))
                oe2   == addEntity(oe1.c, OrientedEdge(edge2.id))
                oe3   == addEntity(oe2.c, OrientedEdge(edge3.id))
                loop  == addEntity(oe3.c, EdgeLoop(<<oe3.id, oe2.id, oe1.id>>))
                bound == addEntity(loop.c, FaceOuterBound(loop.id))
            IN  { LET plane == addEntity(axis.c, Plane(axis.id))
                  IN  addEntity(plane.c, AdvancedFace(<<bound.id>>, plane.id))
                  : axis \in createAxis2Placement(bound.c, v0, Normal(t),
                                                  Normalize(Float3(Sub(v1, v0)))) }
            : edge3 \in createEdgeCurve(edge2.c, v2, v0) }
          : edge2 \in createEdgeCurve(edge1.c, v1, v2) }
        : edge1 \in createEdgeCurve(mc, v0, v1) }

createTriangleFace(mc, t) ==
    LET v0 == t[1]
        v1 == t[2]
        v2 == t[3]
    IN  UNION { UNION { UNION {
            LET oe1   == addEntity(edge3.c, OrientedEdge(edge1.id))
                oe2   == addEntity(oe1.c, OrientedEdge(edge2.id))
                oe3   == addEntity(oe2.c, OrientedEdge(edge3.id))
                loop  == addEntity(oe3.c, EdgeLoop(<<oe1.id, oe2.id, oe3.id>>))
                bound == addEntity(loop.c, FaceOuterBound(loop.id))
            IN  { LET plane == addEntity(axis.c, Plane(axis.id))
                  IN  addEntity(plane.c, AdvancedFace(<<bound.id>>, plane.id))
                  : axis \in createAxis2Placement(bound.c, v0, Normal(t),
                                                  Normalize(Float3(Sub(v1, v0)))) }
            : edge3 \in createEdgeCurve(edge2.c, v2, v0) }
          : edge2 \in createEdgeCurve(edge1.c, v1, v2) }
        : edge1 \in createEdgeCurve(mc, v0, v1) }

\* ConvertMesh, lines 243-247, keeping the point cache of the call before
ConvertMeshReset_keepPointCache(mc) ==
    [mc EXCEPT !.entities = <<>>, !.idCounter = 1, !.edgeCache = EmptyMap,
               !.normalCache = EmptyMap, !.lookups = {}, !.array = @ + 1]

\* ConvertMesh, lines 243-247: "Reset for new conversion": a new list, the
\* counter back at 1, three new maps
ConvertMeshReset(mc) ==
    [mc EXCEPT !.entities = <<>>, !.idCounter = 1, !.pointCache = EmptyMap,
               !.edgeCache = EmptyMap, !.normalCache = EmptyMap, !.lookups = {},
               !.array = @ + 1]

\* the prelude with the PRODUCT_DEFINITION_CONTEXT framed by the product context
ConvertMeshPrelude_productFrame(mc, nm) ==
    LET appContext  == addEntity(ConvertMeshReset(mc), ApplicationContext("sdfx STEP Writer"))
        lengthUnit  == addEntity(appContext.c, LengthUnit)
        planeAngle  == addEntity(lengthUnit.c, PlaneAngleUnit)
        solidAngle  == addEntity(planeAngle.c, SolidAngleUnit)
        uncertainty == addEntity(solidAngle.c,
                           UncertaintyMeasureWithUnit(DistanceAccuracy, lengthUnit.id,
                               "DISTANCE_ACCURACY_VALUE",
                               "Maximum model space distance between geometric entities"))
        geomContext == addEntity(uncertainty.c,
                           GeometricRepresentationContext(3, <<uncertainty.id>>,
                               <<lengthUnit.id, planeAngle.id, solidAngle.id>>))
        productContext == addEntity(geomContext.c, ProductContext(appContext.id))
        product     == addEntity(productContext.c, Product(nm, <<productContext.id>>))
        pdf         == addEntity(product.c, ProductDefinitionFormation(product.id))
        pdc         == addEntity(pdf.c, ProductDefinitionContext(productContext.id))
        pd          == addEntity(pdc.c, ProductDefinition(pdf.id, pdc.id))
        pds         == addEntity(pd.c, ProductDefinitionShape(pd.id))
    IN  [c |-> pds.c, geomContextID |-> geomContext.id, pdsID |-> pds.id]

\* ConvertMesh, lines 242-325: the reset, the prelude and the product
\* hierarchy.  The outcome's id is not used; geomContextID and pdsID are the
\* ids of the 6th and the 12th entity.
ConvertMeshPrelude(mc, nm) ==
    LET appContext  == addEntity(ConvertMeshReset(mc), ApplicationContext("sdfx STEP Writer"))
        lengthUnit  == addEntity(appContext.c, LengthUnit)
        planeAngle  == addEntity(lengthUnit.c, PlaneAngleUnit)
        solidAngle  == addEntity(planeAngle.c, SolidAngleUnit)
        uncertainty == addEntity(solidAngle.c,
                           UncertaintyMeasureWithUnit(DistanceAccuracy, lengthUnit.id,
                               "DISTANCE_ACCURACY_VALUE",
                               "Maximum model space distance between geometric entities"))
        geomContext == addEntity(uncertainty.c,
                           GeometricRepresentationContext(3, <<uncertainty.id>>,
                               <<lengthUnit.id, planeAngle.id, solidAngle.id>>))
        productContext == addEntity(geomContext.c, ProductContext(appContext.id))
        product     == addEntity(productContext.c, Product(nm, <<productContext.id>>))
        pdf         == addEntity(product.c, ProductDefinitionFormation(product.id))
        pdc         == addEntity(pdf.c, ProductDefinitionContext(appContext.id))
        pd          == addEntity(pdc.c, ProductDefinition(pdf.id, pdc.id))
        pds         == addEntity(pd.c, ProductDefinitionShape(pd.id))
    IN  [c |-> pds.c, geomContextID |-> geomContext.id, pdsID |-> pds.id]

\* the closing entities with the MANIFOLD_SOLID_BREP added before its shell
ConvertMeshClosure_brepFirst(mc, faces, geomContext, pds) ==
    LET brep  == addEntity(mc, ManifoldSolidBrep(mc.idCounter + 1))
        shell == addEntity(brep.c, ClosedShell(faces))
    IN  { LET axis      == getOrCreateDirection(loc.c, FVec(0, 0, 1))
              refDir    == getOrCreateDirection(axis.c, FVec(1, 0, 0))
              placement == addEntity(refDir.c, Axis2Placement3D(loc.id, axis.id, refDir.id))
              advBrep   == addEntity(placement.c,
                               AdvancedBrepShapeRepresentation(<<brep.id, placement.id>>,
                                                               geomContext))
              shapeDef  == addEntity(advBrep.c, ShapeDefinitionRepresentation(pds, advBrep.id))
          IN  shapeDef.c
          : loc \in getOrCreatePoint(shell.c, Vec(0, 0, 0)) }

\* the closing entities with the representation's two items exchanged
ConvertMeshClosure_itemsSwapped(mc, faces, geomContext, pds) ==
    LET shell == addEntity(mc, ClosedShell(faces))
        brep  == addEntity(shell.c, ManifoldSolidBrep(shell.id))
    IN  { LET axis      == getOrCreateDirection(loc.c, FVec(0, 0, 1))
              refDir    == getOrCreateDirection(axis.c, FVec(1, 0, 0))
              placement == addEntity(refDir.c, Axis2Placement3D(loc.id, axis.id, refDir.id))
              advBrep   == addEntity(placement.c,
                               AdvancedBrepShapeRepresentation(<<placement.id, brep.id>>,
                                                               geomContext))
              shapeDef  == addEntity(advBrep.c, ShapeDefinitionRepresentation(pds, advBrep.id))
          IN  shapeDef.c
          : loc \in getOrCreatePoint(brep.c, Vec(0, 0, 0)) }

\* ConvertMesh, lines 341-390: shell, brep, world placement, representation
ConvertMeshClosure(mc, faces, geomContext, pds) ==
    LET shell == addEntity(mc, ClosedShell(faces))
        brep  == addEntity(shell.c, ManifoldSolidBrep(shell.id))
    IN  { LET axis      == getOrCreateDirection(loc.c, FVec(0, 0, 1))
              refDir    == getOrCreateDirection(axis.c, FVec(1, 0, 0))
              placement == addEntity(refDir.c, Axis2Placement3D(loc.id, axis.id, refDir.id))
              advBrep   == addEntity(placement.c,
                               AdvancedBrepShapeRepresentation(<<brep.id, placement.id>>,
                                                               geomContext))
              shapeDef  == addEntity(advBrep.c, ShapeDefinitionRepresentation(pds, advBrep.id))
          IN  shapeDef.c
          : loc \in getOrCreatePoint(brep.c, Vec(0, 0, 0)) }

\* ConvertMesh, lines 330-338: the loop from triangle k on, over a set of
\* [c, faceIDs] it may have reached
RECURSIVE ConvertMeshLoop(_, _, _)
ConvertMeshLoop(reached, m, k) ==
    IF k > Len(m) THEN reached
    ELSE ConvertMeshLoop(
             IF Degenerate(m[k], DegenerateTolerance) THEN reached
             ELSE UNION { { [c |-> face.c, faceIDs |-> Append(s.faceIDs, face.id)]
                            : face \in createTriangleFace(s.c, m[k]) }
                          : s \in reached },
             m, k + 1)

\* ConvertMesh as a whole: the converter and the locals a call on converter
\* mc may end with
ConvertMeshRun(mc, m, nm) ==
    LET r == ConvertMeshPrelude(mc, nm)
    IN  UNION { { [c |-> done, faceIDs |-> s.faceIDs,
                   geomContextID |-> r.geomContextID, pdsID |-> r.pdsID]
                  : done \in ConvertMeshClosure(s.c, s.faceIDs, r.geomContextID, r.pdsID) }
                : s \in ConvertMeshLoop({[c |-> r.c, faceIDs |-> <<>>]}, m, 1) }

\* the entity lists the call may return
ConvertMesh(mc, m, nm) == {r.c.entities : r \in ConvertMeshRun(mc, m, nm)}

\* OptimizeMesh with its test the wrong way round
OptimizeMesh_keepsDegenerate(m) == SelectSeq(m, LAMBDA t : Degenerate(t, DegenerateTolerance))

\* OptimizeMesh: the non-degenerate triangles, in order
OptimizeMesh(m) == SelectSeq(m, LAMBDA t : ~Degenerate(t, DegenerateTolerance))

\* ------------------------------------------------------------------ Writer

\* A writer value: file is the state of the os.File, err the error the
\* bufio.Writer has met ("" for none; it returns that error from then on),
\* buffered whether the buffer holds unwritten bytes, closeErr the error of
\* closing the file, data the entity list of the DATA section, log the
\* operations attempted, in order, out the lines the bufio.Writer has
\* accepted, in order, authorName and orgName the two header fields.
NewWriter ==
    [file |-> "open", err |-> "", buffered |-> FALSE, closeErr |-> "", data |-> <<>>,
     log |-> <<>>, out |-> <<>>, authorName |-> "sdfx User",
     orgName |-> "sdfx Organization"]

\* Writer.SetAuthor
SetAuthor(w, nm, org) == [w EXCEPT !.authorName = nm, !.orgName = org]

\* a line of the file: its text, or what a formatted line is made from
\* (the time stamp of FILE_NAME is left out)
TextLine(text) == [text |-> text]

FileNameLine(author, org) == [text |-> "FILE_NAME", author |-> author, org |-> org]

\* the line(s) of entity.String()
EntityLine(e) == [text |-> "#", entity |-> e]

\* an operation's outcome: the writer afterwards and the error it returns
Wrote(w, err) == [w |-> w, err |-> err]

\* the bufio.Writer.WriteString calls of one section, one per line, up to
\* the first that fails: the first fails with the error met before, or all
\* succeed, or the k-th meets an error of the underlying file
WriteString(w, section, lines) ==
    LET tried == [w EXCEPT !.log = Append(@, section)]
    IN  IF w.err # ""
        THEN {Wrote(tried, w.err)}
        ELSE {Wrote([tried EXCEPT !.out = @ \o lines, !.buffered = TRUE], "")}
             \cup {Wrote([tried EXCEPT !.out = @ \o SubSeq(lines, 1, k - 1),
                                       !.buffered = (@ \/ k > 1),
                                       !.err = section], section)
                   : k \in 1..Len(lines)}

\* bufio.Writer.Flush: nothing to do on an empty buffer
Flush(w) ==
    LET tried == [w EXCEPT !.log = Append(@, "flush")]
    IN  IF w.err # "" THEN {Wrote(tried, w.err)}
        ELSE IF ~w.buffered THEN {Wrote(tried, "")}
        ELSE {Wrote([tried EXCEPT !.buffered = FALSE], ""),
              Wrote([tried EXCEPT !.err = "flush"], "flush")}

\* os.File.Close: the file is closed whether or not it reports an error
FileClose(w) ==
    LET tried == [w EXCEPT !.log = Append(@, "close"), !.file = "closed"]
    IN  {Wrote(tried, ""), Wrote([tried EXCEPT !.closeErr = "close"], "close")}

\* writeHeader's six lines
HeaderLines(w) ==
    << TextLine("ISO-10303-21;"),
       TextLine("HEADER;"),
       TextLine("FILE_DESCRIPTION(('STEP AP214'),'1');"),
       FileNameLine(w.authorName, w.orgName),
       TextLine("FILE_SCHEMA(('AUTOMOTIVE_DESIGN'));"),
       TextLine("ENDSEC;") >>

writeHeader(w) == WriteString(w, "header", HeaderLines(w))

\* writeData without the closing ENDSEC;
DataLines_noEndsec(entities) ==
    <<TextLine("DATA;")>> \o [k \in 1..Len(entities) |-> EntityLine(entities[k])]

\* writeData's lines: DATA;, the entities in the order of the list, ENDSEC;
DataLines(entities) ==
    <<TextLine("DATA;")>> \o [k \in 1..Len(entities) |-> EntityLine(entities[k])]
                         \o <<TextLine("ENDSEC;")>>

writeData(w, entities) ==
    {Wrote([o.w EXCEPT !.data = IF o.err = "" THEN entities ELSE @], o.err)
     : o \in WriteString(w, "data", DataLines(entities))}

writeFooter(w) == WriteString(w, "footer", <<TextLine("END-ISO-10303-21;")>>)

\* the author options handed to SetAuthor as they are given
ApplyOptions_asGiven(w, o) ==
    IF o.Author # "" \/ o.Organization # ""
    THEN SetAuthor(w, o.Author, o.Organization)
    ELSE w

\* writeSTEP, lines 149-160, and SaveSTEPWithOptions, lines 212-223: "Set
\* author information if provided"
ApplyOptions(w, o) ==
    IF o.Author # "" \/ o.Organization # ""
    THEN SetAuthor(w, IF o.Author = "" THEN "Unknown" ELSE o.Author,
                      IF o.Organization = "" THEN "Unknown" ELSE o.Organization)
    ELSE w

\* Writer.WriteMesh going on to the next section after a failed write
WriteSections_allSections(w, entities) ==
    UNION { UNION { UNION { { Wrote(fl.w, IF h.err # "" THEN h.err ELSE fl.err)
                              : fl \in Flush(f.w) }
                            : f \in writeFooter(d.w) }
                    : d \in writeData(h.w, entities) }
            : h \in writeHeader(w) }

\* Writer.WriteMesh, lines 138-155: header, data, footer, flush, returning at
\* the first error
WriteSections(w, entities) ==
    UNION { IF h.err # "" THEN {h}
            ELSE UNION { IF d.err # "" THEN {d}
                         ELSE UNION { IF f.err # "" THEN {f} ELSE Flush(f.w)
                                      : f \in writeFooter(d.w) }
                         : d \in writeData(h.w, entities) }
            : h \in writeHeader(w) }

\* Writer.WriteMesh: optimize, convert with the writer's converter mc, write.
\* An outcome holds the conversion's end, the writer and the error.
WriteMesh(mc, w, m, nm) ==
    UNION { { [run |-> r, w |-> o.w, err |-> o.err]
              : o \in WriteSections(w, r.c.entities) }
            : r \in ConvertMeshRun(mc, OptimizeMesh(m), nm) }

\* Writer.Close: flush; on a flush error close the file and return that
\* error, else return the error of closing the file
Close(w) ==
    UNION { IF fl.err # ""
            THEN {Wrote(cl.w, fl.err) : cl \in FileClose(fl.w)}
            ELSE FileClose(fl.w)
            : fl \in Flush(w) }

\* ------------------------------------------------------------------ inputs

\* points, in grid steps: PA, PP and PB lie on a line, PP within the point
\* tolerance of both PA and PB, which are farther apart than the tolerance
PA == Vec(0, 0, 0)
PP == Vec(3, 0, 0)
PB == Vec(6, 0, 0)
PC == Vec(0, 20000, 0)
PE == Vec(0, 0, 20000)
PF == Vec(20000, 0, 20000)

Tris ==
    { <<PA, PB, PC>>,      \* a plain triangle
      <<PA, PC, PB>>,      \* the same with the opposite winding
      <<PP, PC, PB>>,      \* PP is near two points of the first triangle
      <<PA, PP, PC>>,      \* two vertices within the point tolerance
      <<PA, PP, PB>>,      \* colinear
      <<PA, PA, PC>>,      \* two vertices equal
      <<PA, PC, PE>>,      \* out of the XY plane
      <<PA, PE, PF>> }     \* shares one vertex with the first triangle

Meshes == UNION { [1..n -> Tris] : n \in 0..MaxTris }

Names == {"sdfx_model", "Widget"}

\* the batches a producer enqueues: none, one triangle, a triangle and a
\* degenerate one
Batches ==
    { <<>>,
      << <<PA, PB, PC>> >>,
      << <<PA, PC, PE>>, <<PA, PA, PC>> >> }

\* the values of STEPOptions.ProductName
ProductNames == {"", "Widget"}

\* STEPOptions{}
NoOptions == [Author |-> "", Organization |-> "", ProductName |-> ""]

\* the values of STEPOptions
Options ==
    { [Author |-> a, Organization |-> o, ProductName |-> n]
      : a \in {"", "Jane"}, o \in {"", "Acme"}, n \in ProductNames }

\* ----------------------------------------------------------- state machine

VARIABLES
    c,              \* the MeshConverter
    pc,             \* "idle" | "triangles" (inside ConvertMesh's loop) |
                    \* "returned" (ConvertMesh has returned c.entities)
    mesh, name,     \* ConvertMesh's arguments
    i,              \* the loop's position in mesh, from 1
    faceIDs, geomContextID, pdsID,   \* ConvertMesh's locals
    calls,          \* ConvertMesh calls started
    first,          \* history: arguments and result of the first finished call
    call,           \* history: the latest call of a helper operation made on
                    \* its own: its name, arguments and result, and the
                    \* converter before it
    entry,          \* the export entry point in use: "none" | "stream"
                    \* (NewStreamWriter .. Finalize) | "tostep" | "save"
    productName,    \* opts.ProductName, or Finalize's name
    opts,           \* the STEPOptions of ToSTEPWithOptions / SaveSTEPWithOptions
    w,              \* the Writer
    queue,          \* the batches buffered in the channel
    closed,         \* the channel is closed
    triangles,      \* the triangle accumulator
    prod,           \* the producer: "none" | "run" | "closed" | "stopped"
    coll,           \* the collecting goroutine: "none" | "recv" | "done"
    fin,            \* the caller: "none" | "idle" | "close" | "wait" |
                    \* "returned" | "panicked"
    result,         \* the error the entry point returned: "none" before it
                    \* returns, "nil", or the error
    sent,           \* history: the batches enqueued, in order
    handed,         \* history: the meshes WriteMesh was called with
    raced           \* history: Finalize read the accumulator while the
                    \* collecting goroutine had not exited

convVars == <<c, pc, mesh, name, i, faceIDs, geomContextID, pdsID, calls, first, call>>

streamVars == <<entry, productName, opts, w, queue, closed, triangles, prod, coll, fin,
                result, sent, handed, raced>>

vars == <<c, pc, mesh, name, i, faceIDs, geomContextID, pdsID, calls, first, call,
          entry, productName, opts, w, queue, closed, triangles, prod, coll, fin,
          result, sent, handed, raced>>

NoCall == [mesh |-> <<>>, name |-> "", entities |-> <<>>, array |-> 0, done |-> FALSE]

NoHelper ==
    [op |-> "none", v1 |-> Vec(0, 0, 0), v2 |-> Vec(0, 0, 0), id |-> 0,
     before |-> NewMeshConverter, n |-> 0, asked |-> {}]

Init ==
    /\ c = NewMeshConverter
    /\ pc = "idle"
    /\ mesh = <<>> /\ name = ""
    /\ i = 1
    /\ faceIDs = <<>> /\ geomContextID = 0 /\ pdsID = 0
    /\ calls = 0
    /\ first = NoCall
    /\ call = NoHelper
    /\ entry = "none" /\ productName = "" /\ opts = NoOptions
    /\ w = NewWriter
    /\ queue = <<>> /\ closed = FALSE /\ triangles = <<>>
    /\ prod = "none" /\ coll = "none" /\ fin = "none"
    /\ result = "none"
    /\ sent = <<>> /\ handed = <<>> /\ raced = FALSE

\* ConvertMesh is entered: reset, prelude, product hierarchy
ConvertMeshStart(m, nm) ==
    /\ pc \in {"idle", "returned"}
    /\ calls < MaxCalls
    /\ LET r == ConvertMeshPrelude(c, nm)
       IN  /\ c' = r.c
           /\ geomContextID' = r.geomContextID
           /\ pdsID' = r.pdsID
    /\ mesh' = m /\ name' = nm
    /\ i' = 1
    /\ faceIDs' = <<>>
    /\ pc' = "triangles"
    /\ calls' = calls + 1
    /\ UNCHANGED <<first, call>>
    /\ UNCHANGED streamVars

\* the loop without its degeneracy test: a degenerate triangle gets a face
ConvertMeshSkip_noTest ==
    /\ pc = "triangles" /\ i <= Len(mesh)
    /\ Degenerate(mesh[i], DegenerateTolerance)
    /\ \E face \in createTriangleFace(c, mesh[i]) :
           /\ c' = face.c
           /\ faceIDs' = Append(faceIDs, face.id)
    /\ i' = i + 1
    /\ UNCHANGED <<pc, mesh, name, geomContextID, pdsID, calls, first, call>>
    /\ UNCHANGED streamVars

\* one pass of the loop over a degenerate triangle
ConvertMeshSkip ==
    /\ pc = "triangles" /\ i <= Len(mesh)
    /\ Degenerate(mesh[i], DegenerateTolerance)
    /\ i' = i + 1
    /\ UNCHANGED <<c, pc, mesh, name, faceIDs, geomContextID, pdsID, calls, first, call>>
    /\ UNCHANGED streamVars

\* the loop giving no second face to a triangle it has already converted
ConvertMeshFace_oncePerTriangle ==
    /\ pc = "triangles" /\ i <= Len(mesh)
    /\ ~Degenerate(mesh[i], DegenerateTolerance)
    /\ IF \E k \in 1..(i - 1) : mesh[k] = mesh[i]
       THEN UNCHANGED <<c, faceIDs>>
       ELSE \E face \in createTriangleFace(c, mesh[i]) :
                /\ c' = face.c
                /\ faceIDs' = Append(faceIDs, face.id)
    /\ i' = i + 1
    /\ UNCHANGED <<pc, mesh, name, geomContextID, pdsID, calls, first, call>>
    /\ UNCHANGED streamVars

\* one pass of the loop over any other triangle
ConvertMeshFace ==
    /\ pc = "triangles" /\ i <= Len(mesh)
    /\ ~Degenerate(mesh[i], DegenerateTolerance)
    /\ \E face \in createTriangleFace(c, mesh[i]) :
           /\ c' = face.c
           /\ faceIDs' = Append(faceIDs, face.id)
    /\ i' = i + 1
    /\ UNCHANGED <<pc, mesh, name, geomContextID, pdsID, calls, first, call>>
    /\ UNCHANGED streamVars

\* ConvertMesh returning before the closing entities when no face was made
ConvertMeshReturn_nothingForNoFace ==
    /\ pc = "triangles" /\ i > Len(mesh)
    /\ \E mc \in (IF faceIDs = <<>> THEN {c}
                  ELSE ConvertMeshClosure(c, faceIDs, geomContextID, pdsID)) :
           /\ c' = mc
           /\ first' = IF first.done THEN first
                       ELSE [mesh |-> mesh, name |-> name, entities |-> mc.entities,
                             array |-> mc.array, done |-> TRUE]
    /\ pc' = "returned"
    /\ UNCHANGED <<mesh, name, i, faceIDs, geomContextID, pdsID, calls, call>>
    /\ UNCHANGED streamVars

\* after the loop: the closing entities, and the return
ConvertMeshReturn ==
    /\ pc = "triangles" /\ i > Len(mesh)
    /\ \E mc \in ConvertMeshClosure(c, faceIDs, geomContextID, pdsID) :
           /\ c' = mc
           /\ first' = IF first.done THEN first
                       ELSE [mesh |-> mesh, name |-> name, entities |-> mc.entities,
                             array |-> mc.array, done |-> TRUE]
    /\ pc' = "returned"
    /\ UNCHANGED <<mesh, name, i, faceIDs, geomContextID, pdsID, calls, call>>
    /\ UNCHANGED streamVars

\* a MeshConverter that converts one mesh (as a Writer's converter does)
Next ==
    \/ \E m \in Meshes, nm \in Names : pc = "idle" /\ ConvertMeshStart(m, nm)
    \/ ConvertMeshSkip
    \/ ConvertMeshFace
    \/ ConvertMeshReturn

Spec == Init /\ [][Next]_vars

\* a MeshConverter whose ConvertMesh is called up to MaxCalls times, each
\* time after the first on the arguments of the first call
NextRerun ==
    \/ \E m \in Meshes, nm \in Names : pc = "idle" /\ ConvertMeshStart(m, nm)
    \/ pc = "returned" /\ ConvertMeshStart(first.mesh, first.name)
    \/ ConvertMeshSkip
    \/ ConvertMeshFace
    \/ ConvertMeshReturn

SpecRerun == Init /\ [][NextRerun]_vars

\* the triangles of m in the opposite order
Reverse(m) == [k \in 1..Len(m) |-> m[Len(m) + 1 - k]]

\* the product name that is not nm
OtherName(nm) == CHOOSE other \in Names : other # nm

\* a MeshConverter whose ConvertMesh is called up to MaxCalls times, each
\* time after the first on the rest of the last mesh (all but its first
\* triangle) in the opposite order, under the other product name
NextSequence ==
    \/ \E m \in Meshes, nm \in Names : pc = "idle" /\ ConvertMeshStart(m, nm)
    \/ pc = "returned"
          /\ ConvertMeshStart(Reverse(SubSeq(mesh, 2, Len(mesh))), OtherName(name))
    \/ ConvertMeshSkip
    \/ ConvertMeshFace
    \/ ConvertMeshReturn

SpecSequence == Init /\ [][NextSequence]_vars

\* the arguments of the helper operations called one by one
HelperPoints == {PA, PP, PB, PC}

\* direction requests, as vectors of whole numbers
HelperDirs == {Vec(1, 0, 0), Vec(2, 0, 0), Vec(0, 1, 1), Vec(0, 3, 3), Vec(0, 0, 1)}

\* ConvertMesh up to its loop (reset, prelude, product hierarchy), from where
\* the helper operations are called one by one
HelpersStart(nm) ==
    /\ pc = "idle"
    /\ LET r == ConvertMeshPrelude(c, nm)
       IN  /\ c' = r.c
           /\ geomContextID' = r.geomContextID
           /\ pdsID' = r.pdsID
    /\ name' = nm
    /\ pc' = "helpers"
    /\ calls' = calls + 1
    /\ UNCHANGED <<mesh, i, faceIDs, first, call>>
    /\ UNCHANGED streamVars

createEdgeCurveCall(v1, v2) ==
    /\ pc = "helpers" /\ call.n < MaxHelperCalls
    /\ \E o \in createEdgeCurve(c, v1, v2) :
           /\ c' = o.c
           /\ call' = [op |-> "createEdgeCurve", v1 |-> v1, v2 |-> v2, id |-> o.id,
                       before |-> c, n |-> call.n + 1, asked |-> call.asked]
    /\ UNCHANGED <<pc, mesh, name, i, faceIDs, geomContextID, pdsID, calls, first>>
    /\ UNCHANGED streamVars

getOrCreateDirectionCall(d) ==
    /\ pc = "helpers" /\ call.n < MaxHelperCalls
    /\ LET o == getOrCreateDirection(c, Float3(d))
       IN  /\ c' = o.c
           /\ call' = [op |-> "getOrCreateDirection", v1 |-> d, v2 |-> d, id |-> o.id,
                       before |-> c, n |-> call.n + 1,
                       asked |-> call.asked \cup {<<d, o.id>>}]
    /\ UNCHANGED <<pc, mesh, name, i, faceIDs, geomContextID, pdsID, calls, first>>
    /\ UNCHANGED streamVars

\* a MeshConverter that converts one mesh, or on which the helper operations
\* of the loop are called one by one
NextHelpers ==
    \/ \E m \in Meshes, nm \in Names : pc = "idle" /\ ConvertMeshStart(m, nm)
    \/ ConvertMeshSkip
    \/ ConvertMeshFace
    \/ ConvertMeshReturn
    \/ \E nm \in Names : HelpersStart(nm)
    \/ \E v1, v2 \in HelperPoints : v1 # v2 /\ createEdgeCurveCall(v1, v2)
    \/ \E d \in HelperDirs : getOrCreateDirectionCall(d)

SpecHelpers == Init /\ [][NextHelpers]_vars

\* ------------------------------------------------- the export entry points

\* the concatenation of the batches of a sequence
RECURSIVE Flatten(_)
Flatten(batches) ==
    IF batches = <<>> THEN <<>> ELSE Head(batches) \o Flatten(Tail(batches))

\* "sdfx_model" for an empty product name
DefaultName(nm) == IF nm = "" THEN "sdfx_model" ELSE nm

\* the converter's variables after the ConvertMesh call of WriteMesh ended as r
Converted(r, m, nm) ==
    /\ c' = r.c
    /\ mesh' = m /\ name' = nm
    /\ i' = Len(m) + 1
    /\ faceIDs' = r.faceIDs /\ geomContextID' = r.geomContextID /\ pdsID' = r.pdsID
    /\ pc' = "returned"
    /\ calls' = calls + 1
    /\ first' = IF first.done THEN first
                ELSE [mesh |-> m, name |-> nm, entities |-> r.c.entities,
                      array |-> r.c.array, done |-> TRUE]
    /\ UNCHANGED call

\* NewWriter fails (os.Create): the entry point e returns the error
CreateFails(e) ==
    /\ entry = "none" /\ pc = "idle"
    /\ entry' = e
    /\ result' = "create"
    /\ fin' = "returned"
    /\ UNCHANGED <<productName, opts, w, queue, closed, triangles, prod, coll, sent, handed, raced>>
    /\ UNCHANGED convVars

\* NewStreamWriter: the writer, the channel, the collecting goroutine
NewStreamWriter ==
    /\ entry = "none" /\ pc = "idle"
    /\ entry' = "stream"
    /\ w' = NewWriter
    /\ queue' = <<>> /\ closed' = FALSE /\ triangles' = <<>>
    /\ prod' = "run" /\ coll' = "recv" /\ fin' = "idle"
    /\ UNCHANGED <<productName, opts, result, sent, handed, raced>>
    /\ UNCHANGED convVars

\* a send that does not wait for room in the channel's buffer
Send_noWait(b, limit) ==
    /\ entry \in {"stream", "tostep"} /\ prod = "run"
    /\ Len(sent) < limit
    /\ queue' = Append(queue, b)
    /\ sent' = Append(sent, b)
    /\ UNCHANGED <<entry, productName, opts, w, closed, triangles, prod, coll, fin, result,
                   handed, raced>>
    /\ UNCHANGED convVars

\* the producer enqueues batch b, having enqueued fewer than limit batches;
\* the send blocks while the channel's buffer is full
Send(b, limit) ==
    /\ entry \in {"stream", "tostep"} /\ prod = "run"
    /\ Len(sent) < limit
    /\ Len(queue) < QueueCapacity
    /\ queue' = Append(queue, b)
    /\ sent' = Append(sent, b)
    /\ UNCHANGED <<entry, productName, opts, w, closed, triangles, prod, coll, fin, result,
                   handed, raced>>
    /\ UNCHANGED convVars

\* the producer of a StreamWriter closes the channel when it is done
ProducerClose ==
    /\ entry = "stream" /\ prod = "run"
    /\ closed' = TRUE
    /\ prod' = "closed"
    /\ UNCHANGED <<entry, productName, opts, w, queue, triangles, coll, fin, result, sent,
                   handed, raced>>
    /\ UNCHANGED convVars

\* the producer of a StreamWriter is done and leaves the channel open
ProducerStop ==
    /\ entry = "stream" /\ prod = "run"
    /\ prod' = "stopped"
    /\ UNCHANGED <<entry, productName, opts, w, queue, closed, triangles, coll, fin, result,
                   sent, handed, raced>>
    /\ UNCHANGED convVars

\* StreamWriter.collect putting each batch in front of the accumulator
collect_inFront ==
    /\ entry = "stream" /\ coll = "recv" /\ fin # "panicked"
    /\ queue # <<>>
    /\ triangles' = Head(queue) \o triangles
    /\ queue' = Tail(queue)
    /\ UNCHANGED <<entry, productName, opts, w, closed, prod, coll, fin, result, sent, handed,
                   raced>>
    /\ UNCHANGED convVars

\* StreamWriter.collect: one pass of the range loop
collect ==
    /\ entry = "stream" /\ coll = "recv" /\ fin # "panicked"
    /\ queue # <<>>
    /\ triangles' = triangles \o Head(queue)
    /\ queue' = Tail(queue)
    /\ UNCHANGED <<entry, productName, opts, w, closed, prod, coll, fin, result, sent, handed,
                   raced>>
    /\ UNCHANGED convVars

\* StreamWriter.collect: the channel is closed and empty: wg.Done
collectExit ==
    /\ entry = "stream" /\ coll = "recv" /\ fin # "panicked"
    /\ queue = <<>> /\ closed
    /\ coll' = "done"
    /\ UNCHANGED <<entry, productName, opts, w, queue, closed, triangles, prod, fin, result,
                   sent, handed, raced>>
    /\ UNCHANGED convVars

\* StreamWriter.Finalize, line 215: the first Printf reads len(sw.triangles)
FinalizeEnter(nm) ==
    /\ entry = "stream" /\ fin = "idle"
    /\ prod \in {"closed", "stopped"}
    /\ productName' = nm
    /\ raced' = (raced \/ coll # "done")
    /\ fin' = "close"
    /\ UNCHANGED <<entry, opts, w, queue, closed, triangles, prod, coll, result, sent, handed>>
    /\ UNCHANGED convVars

\* StreamWriter.Finalize, line 218: close(sw.input); closing a closed
\* channel panics
FinalizeClose ==
    /\ entry = "stream" /\ fin = "close"
    /\ IF closed
       THEN fin' = "panicked" /\ UNCHANGED closed
       ELSE fin' = "wait" /\ closed' = TRUE
    /\ UNCHANGED <<entry, productName, opts, w, queue, triangles, prod, coll, result, sent,
                   handed, raced>>
    /\ UNCHANGED convVars

\* StreamWriter.Finalize, lines 219-233: wg.Wait returns, WriteMesh, Close
FinalizeWrite ==
    /\ entry = "stream" /\ fin = "wait"
    /\ coll = "done"
    /\ \E o \in WriteMesh(c, w, triangles, productName) :
           /\ Converted(o.run, OptimizeMesh(triangles), productName)
           /\ \E cl \in Close(o.w) :
                  /\ w' = cl.w
                  /\ result' = IF o.err # "" THEN o.err
                               ELSE IF cl.err # "" THEN cl.err ELSE "nil"
    /\ handed' = Append(handed, triangles)
    /\ fin' = "returned"
    /\ UNCHANGED <<entry, productName, opts, queue, closed, triangles, prod, coll, sent, raced>>

\* ToSTEPWithOptions up to the start of the renderer: writeSTEP has made the
\* writer and the channel and started its goroutine
ToSTEPWithOptions(o) ==
    /\ entry = "none" /\ pc = "idle"
    /\ entry' = "tostep"
    /\ opts' = o
    /\ productName' = o.ProductName
    /\ w' = ApplyOptions(NewWriter, o)
    /\ queue' = <<>> /\ closed' = FALSE /\ triangles' = <<>>
    /\ prod' = "run" /\ coll' = "recv" /\ fin' = "idle"
    /\ UNCHANGED <<result, sent, handed, raced>>
    /\ UNCHANGED convVars

\* ToSTEPWithOptions: the renderer has returned: close(output)
ToSTEPClose ==
    /\ entry = "tostep" /\ prod = "run"
    /\ closed' = TRUE
    /\ prod' = "closed"
    /\ fin' = "wait"
    /\ UNCHANGED <<entry, productName, opts, w, queue, triangles, coll, result, sent, handed,
                   raced>>
    /\ UNCHANGED convVars

\* writeSTEP's goroutine: one pass of the range loop
writeSTEPCollect ==
    /\ entry = "tostep" /\ coll = "recv"
    /\ queue # <<>>
    /\ triangles' = triangles \o Head(queue)
    /\ queue' = Tail(queue)
    /\ UNCHANGED <<entry, productName, opts, w, closed, prod, coll, fin, result, sent, handed,
                   raced>>
    /\ UNCHANGED convVars

\* writeSTEP's goroutine leaving its loop on an empty channel that is still
\* open
writeSTEPWrite_beforeClose ==
    /\ entry = "tostep" /\ coll = "recv"
    /\ queue = <<>>
    /\ \E o \in WriteMesh(c, w, triangles, DefaultName(productName)) :
           /\ Converted(o.run, OptimizeMesh(triangles), DefaultName(productName))
           /\ \E cl \in Close(o.w) : w' = cl.w
    /\ handed' = Append(handed, triangles)
    /\ coll' = "done"
    /\ UNCHANGED <<entry, productName, opts, queue, closed, triangles, prod, fin, result, sent,
                   raced>>

\* writeSTEP's goroutine after the loop: WriteMesh, whose error is printed,
\* the deferred writer.Close, whose error is dropped, and wg.Done
writeSTEPWrite ==
    /\ entry = "tostep" /\ coll = "recv"
    /\ queue = <<>> /\ closed
    /\ \E o \in WriteMesh(c, w, triangles, DefaultName(productName)) :
           /\ Converted(o.run, OptimizeMesh(triangles), DefaultName(productName))
           /\ \E cl \in Close(o.w) : w' = cl.w
    /\ handed' = Append(handed, triangles)
    /\ coll' = "done"
    /\ UNCHANGED <<entry, productName, opts, queue, closed, triangles, prod, fin, result, sent,
                   raced>>

\* ToSTEPWithOptions: wg.Wait returns, return nil
ToSTEPReturn ==
    /\ entry = "tostep" /\ fin = "wait"
    /\ coll = "done"
    /\ result' = "nil"
    /\ fin' = "returned"
    /\ UNCHANGED <<entry, productName, opts, w, queue, closed, triangles, prod, coll, sent,
                   handed, raced>>
    /\ UNCHANGED convVars

\* SaveSTEPWithOptions: WriteMesh, whose error is returned, and the deferred
\* writer.Close, whose error is dropped
SaveSTEPWithOptions(m, op) ==
    /\ entry = "none" /\ pc = "idle"
    /\ entry' = "save"
    /\ opts' = op
    /\ productName' = op.ProductName
    /\ \E o \in WriteMesh(c, ApplyOptions(NewWriter, op), m, DefaultName(op.ProductName)) :
           /\ Converted(o.run, OptimizeMesh(m), DefaultName(op.ProductName))
           /\ \E cl \in Close(o.w) : w' = cl.w
           /\ result' = IF o.err # "" THEN o.err ELSE "nil"
    /\ handed' = Append(handed, m)
    /\ fin' = "returned"
    /\ UNCHANGED <<queue, closed, triangles, prod, coll, sent, raced>>

\* the three entry points, their producers and their goroutines
NextStream ==
    \/ \E e \in {"stream", "tostep", "save"} : CreateFails(e)
    \/ NewStreamWriter
    \/ \E b \in Batches : Send(b, MaxBatches)
    \/ ProducerClose
    \/ ProducerStop
    \/ collect
    \/ collectExit
    \/ \E nm \in Names : FinalizeEnter(nm)
    \/ FinalizeClose
    \/ FinalizeWrite
    \/ \E o \in Options : ToSTEPWithOptions(o)
    \/ ToSTEPClose
    \/ writeSTEPCollect
    \/ writeSTEPWrite
    \/ ToSTEPReturn
    \/ \E m \in Batches, o \in Options : SaveSTEPWithOptions(m, o)

SpecStream == Init /\ [][NextStream]_vars

\* a FinalizeWrite step, by its guard and its effect on the caller
FinalizeReturns ==
    /\ entry = "stream" /\ fin = "wait" /\ coll = "done"
    /\ fin' = "returned"

\* a writeSTEPWrite step, by its guard and its effect on the goroutine
writeSTEPExits ==
    /\ entry = "tostep" /\ coll = "recv" /\ queue = <<>> /\ closed
    /\ coll' = "done"

\* the same under fair scheduling: a goroutine that can take a step takes
\* one, and the client of a StreamWriter whose producer is done calls
\* Finalize
SpecStreamFair ==
    /\ Init /\ [][NextStream]_vars
    /\ WF_vars(collect) /\ WF_vars(collectExit)
    /\ WF_vars(\E nm \in Names : FinalizeEnter(nm))
    /\ WF_vars(FinalizeClose) /\ WF_fin(FinalizeReturns)
    /\ WF_vars(writeSTEPCollect) /\ WF_coll(writeSTEPExits)
    /\ WF_vars(ToSTEPReturn)

\* a StreamWriter and ToSTEPWithOptions with a producer of more batches than
\* the channel buffers (empty batches, which all look alike)
NextFull ==
    \/ NewStreamWriter
    \/ Send(<<>>, QueueCapacity + MaxBatches)
    \/ ProducerClose
    \/ ProducerStop
    \/ collect
    \/ collectExit
    \/ FinalizeEnter("sdfx_model")
    \/ FinalizeClose
    \/ FinalizeWrite
    \/ ToSTEPWithOptions(NoOptions)
    \/ ToSTEPClose
    \/ writeSTEPCollect
    \/ writeSTEPWrite
    \/ ToSTEPReturn

SpecFull == Init /\ [][NextFull]_vars

\* ------------------------------------------------- reading an entity list

\* what each reference field of an entity must point at, from the field
\* comments of the entity types: a set of <<id, kinds>>
Refs(e) ==
    LET one(id, kinds) == {<<id, kinds>>}
        all(ids, kinds) == {<<ids[k], kinds>> : k \in DOMAIN ids}
        units == {"LENGTH_UNIT", "PLANE_ANGLE_UNIT", "SOLID_ANGLE_UNIT"}
    IN  CASE e.kind = "UNCERTAINTY_MEASURE_WITH_UNIT" -> one(e.Unit, units)
          [] e.kind = "GEOMETRIC_REPRESENTATION_CONTEXT" ->
                 all(e.Uncertainty, {"UNCERTAINTY_MEASURE_WITH_UNIT"}) \cup all(e.Units, units)
          [] e.kind = "PRODUCT_CONTEXT" -> one(e.FrameOfReference, {"APPLICATION_CONTEXT"})
          [] e.kind = "PRODUCT" -> all(e.FrameOfReference, {"PRODUCT_CONTEXT"})
          [] e.kind = "PRODUCT_DEFINITION_FORMATION" -> one(e.OfProduct, {"PRODUCT"})
          [] e.kind = "PRODUCT_DEFINITION_CONTEXT" ->
                 one(e.FrameOfReference, {"APPLICATION_CONTEXT"})
          [] e.kind = "PRODUCT_DEFINITION" ->
                 one(e.Formation, {"PRODUCT_DEFINITION_FORMATION"})
                 \cup one(e.FrameOfReference, {"PRODUCT_DEFINITION_CONTEXT"})
          [] e.kind = "PRODUCT_DEFINITION_SHAPE" -> one(e.Definition, {"PRODUCT_DEFINITION"})
          [] e.kind = "SHAPE_DEFINITION_REPRESENTATION" ->
                 one(e.Definition, {"PRODUCT_DEFINITION_SHAPE"})
                 \cup one(e.UsedRepresentation, {"ADVANCED_BREP_SHAPE_REPRESENTATION"})
          [] e.kind = "ADVANCED_BREP_SHAPE_REPRESENTATION" ->
                 all(e.Items, {"MANIFOLD_SOLID_BREP", "AXIS2_PLACEMENT_3D"})
                 \cup one(e.ContextOfItems, {"GEOMETRIC_REPRESENTATION_CONTEXT"})
          [] e.kind = "MANIFOLD_SOLID_BREP" -> one(e.Outer, {"CLOSED_SHELL"})
          [] e.kind = "CLOSED_SHELL" -> all(e.Faces, {"ADVANCED_FACE"})
          [] e.kind = "ADVANCED_FACE" ->
                 all(e.Bounds, {"FACE_BOUND", "FACE_OUTER_BOUND"})
                 \cup one(e.FaceGeometry, {"PLANE"})
          [] e.kind = "FACE_OUTER_BOUND" -> one(e.Bound, {"EDGE_LOOP"})
          [] e.kind = "EDGE_LOOP" -> all(e.EdgeList, {"ORIENTED_EDGE"})
          [] e.kind = "ORIENTED_EDGE" -> one(e.EdgeElement, {"EDGE_CURVE"})
          [] e.kind = "EDGE_CURVE" ->
                 one(e.EdgeStart, {"VERTEX_POINT"}) \cup one(e.EdgeEnd, {"VERTEX_POINT"})
                 \cup one(e.EdgeGeometry, {"LINE"})
          [] e.kind = "VERTEX_POINT" -> one(e.VertexGeometry, {"CARTESIAN_POINT"})
          [] e.kind = "VECTOR" -> one(e.Orientation, {"DIRECTION"})
          [] e.kind = "AXIS2_PLACEMENT_3D" ->
                 one(e.Location, {"CARTESIAN_POINT"}) \cup one(e.Axis, {"DIRECTION"})
                 \cup one(e.RefDirection, {"DIRECTION"})
          [] e.kind = "LINE" -> one(e.Pnt, {"CARTESIAN_POINT"}) \cup one(e.Dir, {"VECTOR"})
          [] e.kind = "PLANE" -> one(e.Position, {"AXIS2_PLACEMENT_3D"})
          [] OTHER -> {}

\* the positions of the list that hold an entity of one of the kinds
Positions(list, kinds) == {k \in 1..Len(list) : list[k].kind \in kinds}

\* the entities of one kind, in list order
OfKind(list, kind) == SelectSeq(list, LAMBDA e : e.kind = kind)

\* the positions of the list that declare the id
Declaring(list, id) == {k \in 1..Len(list) : list[k].id = id}

\* the entity of c.entities that declares the id
Ent(id) == c.entities[CHOOSE k \in Declaring(c.entities, id) : TRUE]

\* --------------------------------------------------------------- claims

\* C1: in the list ConvertMesh returns, the k-th entity has id k: the ids
\* are the consecutive integers from 1 in list order, for every mesh.
C1_IdsConsecutiveFromOne ==
    pc = "returned" => \A k \in 1..Len(c.entities) : c.entities[k].id = k

\* C1 witness: a returned list that holds the entities of two faces
C1_Witness == pc = "returned" /\ Len(faceIDs) = 2 /\ Len(c.entities) > 30

\* C2: every id an entity of the returned list refers to is declared by
\* exactly one entity of the list, and that entity is of the kind the
\* referring field expects.
C2_ReferencesResolve ==
    pc = "returned" =>
        \A k \in 1..Len(c.entities) : \A r \in Refs(c.entities[k]) :
            /\ Cardinality(Declaring(c.entities, r[1])) = 1
            /\ Ent(r[1]).kind \in r[2]

\* C2 witness: a returned list in which an edge curve is referred to by the
\* oriented edges of two faces
C2_Witness ==
    /\ pc = "returned"
    /\ \E j, k \in Positions(c.entities, {"ORIENTED_EDGE"}) :
           j # k /\ c.entities[j].EdgeElement = c.entities[k].EdgeElement

\* the vector a DIRECTION entity holds
DirectionOf(id) ==
    LET r == Ent(id).DirectionRatios IN Vec(r[1], r[2], r[3])

\* the point a CARTESIAN_POINT entity holds
PointOf(id) ==
    LET r == Ent(id).Coordinates IN Vec(r[1], r[2], r[3])

\* the placement of the plane of a face
PlacementOf(face) == Ent(Ent(face.FaceGeometry).Position)

\* C3: the returned list holds one ADVANCED_FACE per non-degenerate input
\* triangle, in input order (the k-th face lies in the plane of the k-th
\* such triangle), and the faces of its single CLOSED_SHELL are exactly the
\* ids of those faces, each once, in that order.
C3_OneFacePerTriangle ==
    pc = "returned" =>
        LET faces  == OfKind(c.entities, "ADVANCED_FACE")
            shells == OfKind(c.entities, "CLOSED_SHELL")
            good   == SelectSeq(mesh, LAMBDA t : ~Degenerate(t, DegenerateTolerance))
        IN  /\ Len(faces) = Len(good)
            /\ Len(shells) = 1
            /\ shells[1].Faces = [k \in 1..Len(faces) |-> faces[k].id]
            /\ \A k \in 1..Len(faces) :
                   /\ DirectionOf(PlacementOf(faces[k]).Axis) = Normalize(Normal(good[k]))
                   /\ DirectionOf(PlacementOf(faces[k]).RefDirection)
                          = Normalize(Normalize(Float3(Sub(good[k][2], good[k][1]))))
                   /\ Equals(PointOf(PlacementOf(faces[k]).Location), good[k][1], tolerance)

\* C3 witness: a returned conversion of a mesh of a degenerate triangle and
\* another one
C3_Witness ==
    /\ pc = "returned"
    /\ Len(mesh) = 2
    /\ Degenerate(mesh[1], DegenerateTolerance)
    /\ Len(faceIDs) = 1

\* C4: calling ConvertMesh again on the same triangle sequence and product
\* name returns a list identical to the one the first call returned.
C4_RerunIdentical ==
    (pc = "returned" /\ calls >= 2) => c.entities = first.entities

\* C5 as claimed: two points looked up in one conversion get the same
\* CARTESIAN_POINT id if they are at most the tolerance apart, and different
\* ids if they are farther apart, whatever was looked up before.
C5_SameIdIffWithinTolerance ==
    \A l1, l2 \in c.lookups :
        /\ Equals(l1[1], l2[1], tolerance) => l1[2] = l2[2]
        /\ ~Equals(l1[1], l2[1], tolerance) => l1[2] # l2[2]

\* farther apart than twice the tolerance
BeyondTwiceTolerance(p, q) == ~Equals(p, q, 2 * tolerance)

\* C5 as amended: every point looked up resolves to a CARTESIAN_POINT whose
\* coordinates are within the tolerance of it, so that two points farther
\* apart than twice the tolerance never get the same id.
C5_ResolvesWithinTolerance ==
    \A l1 \in c.lookups :
        /\ Ent(l1[2]).kind = "CARTESIAN_POINT"
        /\ Equals(PointOf(l1[2]), l1[1], tolerance)
        /\ \A l2 \in c.lookups : BeyondTwiceTolerance(l1[1], l2[1]) => l1[2] # l2[2]

\* C5 witness: a point was answered with the id of a cached point that is
\* not the point itself, and a far point was looked up as well
C5_Witness ==
    /\ \E l1 \in c.lookups : PointOf(l1[2]) # l1[1]
    /\ \E l1, l2 \in c.lookups : BeyondTwiceTolerance(l1[1], l2[1])

\* C6: any two different CARTESIAN_POINT entities of the list hold
\* coordinates farther apart than the point tolerance (at every step of a
\* conversion, hence in the returned list).
C6_PointsFartherThanTolerance ==
    \A j, k \in Positions(c.entities, {"CARTESIAN_POINT"}) :
        j # k => ~Equals(PointOf(c.entities[j].id), PointOf(c.entities[k].id), tolerance)

\* C6 witness: a returned list with three points, after a lookup of a point
\* that was within the tolerance of a cached one and was not added
C6_Witness ==
    /\ pc = "returned"
    /\ Cardinality(Positions(c.entities, {"CARTESIAN_POINT"})) >= 3
    /\ \E l1 \in c.lookups : PointOf(l1[2]) # l1[1]

\* the a-th edge of a triangle, as createTriangleFace passes it on:
\* (v0,v1), (v1,v2), (v2,v0)
TriEdge(t, a) == <<t[a], t[(a % 3) + 1]>>

\* the unordered pair of end points of that edge
TriPair(t, a) == {t[a], t[(a % 3) + 1]}

\* the ids of the three edge curves of a face, in loop order
FaceEdges(face) ==
    LET loop == Ent(Ent(face.Bounds[1]).Bound)
    IN  [a \in 1..3 |-> Ent(loop.EdgeList[a]).EdgeElement]

\* the CARTESIAN_POINT ids at the two ends of an edge curve
EdgePoints(edge) == {Ent(edge.EdgeStart).VertexGeometry, Ent(edge.EdgeEnd).VertexGeometry}

\* the non-degenerate triangles of the mesh being converted, in order
GoodTriangles == SelectSeq(mesh, LAMBDA t : ~Degenerate(t, DegenerateTolerance))

\* C7: the returned list holds one EDGE_CURVE per unordered pair of exact
\* end points that is an edge of a non-degenerate input triangle: two
\* triangle edges over the same pair, in either direction, are given the
\* same EDGE_CURVE id.
C7_OneEdgePerExactPair ==
    pc = "returned" =>
        LET faces == OfKind(c.entities, "ADVANCED_FACE")
            good  == GoodTriangles
            pairs == {TriPair(good[k], a) : k \in 1..Len(good), a \in 1..3}
        IN  /\ Len(faces) = Len(good)
            /\ Len(OfKind(c.entities, "EDGE_CURVE")) = Cardinality(pairs)
            /\ \A j, k \in 1..Len(good) : \A a, b \in 1..3 :
                   TriPair(good[j], a) = TriPair(good[k], b)
                       => FaceEdges(faces[j])[a] = FaceEdges(faces[k])[b]

\* C7 witness: a returned conversion in which a later triangle runs along
\* an edge of an earlier one in the opposite direction
C7_Witness ==
    /\ pc = "returned"
    /\ \E j, k \in 1..Len(GoodTriangles) : \E a, b \in 1..3 :
           /\ j < k
           /\ TriEdge(GoodTriangles[j], a)[1] = TriEdge(GoodTriangles[k], b)[2]
           /\ TriEdge(GoodTriangles[j], a)[2] = TriEdge(GoodTriangles[k], b)[1]

\* C8: no two different EDGE_CURVE entities of the returned list connect
\* the same unordered pair of CARTESIAN_POINT entities.
C8_OneEdgePerPointPair ==
    pc = "returned" =>
        \A j, k \in Positions(c.entities, {"EDGE_CURVE"}) :
            j # k => EdgePoints(c.entities[j]) # EdgePoints(c.entities[k])

\* the point cache answered two different corners of the triangle with the
\* same CARTESIAN_POINT id
Collapsed(t) ==
    \E a, b \in 1..3 : \E l1, l2 \in c.lookups :
        a # b /\ l1[1] = t[a] /\ l2[1] = t[b] /\ l1[2] = l2[2]

\* C9: a triangle two of whose vertices resolve to the same CARTESIAN_POINT
\* gets no ADVANCED_FACE: the list holds at most as many faces as the mesh
\* has triangles without such a pair of vertices.
C9_CollapsedTriangleHasNoFace ==
    pc = "returned" =>
        Len(OfKind(c.entities, "ADVANCED_FACE"))
            <= Cardinality({k \in 1..Len(mesh) : ~Collapsed(mesh[k])})

\* the second triangle has the vertices of the first: the same triangle, or
\* the same with another winding
SameCorners(t, u) == {t[1], t[2], t[3]} = {u[1], u[2], u[3]}

\* C10 as claimed: a mesh of the same non-degenerate triangle twice gives
\* one ADVANCED_FACE; with the second copy's winding reversed it gives two
\* faces over the same three EDGE_CURVEs.
C10_TwiceTheSameTriangle ==
    (pc = "returned" /\ Len(mesh) = 2 /\ SameCorners(mesh[1], mesh[2])
        /\ ~Degenerate(mesh[1], DegenerateTolerance)) =>
        LET faces == OfKind(c.entities, "ADVANCED_FACE")
        IN  IF mesh[1] = mesh[2]
            THEN Len(faces) = 1
            ELSE /\ Len(faces) = 2
                 /\ Len(OfKind(c.entities, "EDGE_CURVE")) = 3
                 /\ {FaceEdges(faces[1])[a] : a \in 1..3} = {FaceEdges(faces[2])[a] : a \in 1..3}

\* C10 as amended: a mesh of the same non-degenerate triangle twice gives
\* two ADVANCED_FACEs, with the same winding as with the opposite one, and
\* the oriented edges of both refer to the same three EDGE_CURVEs.
C10_TwoFacesThreeEdges ==
    (pc = "returned" /\ Len(mesh) = 2 /\ SameCorners(mesh[1], mesh[2])
        /\ ~Degenerate(mesh[1], DegenerateTolerance)) =>
        LET faces == OfKind(c.entities, "ADVANCED_FACE")
        IN  /\ Len(faces) = 2
            /\ Len(OfKind(c.entities, "EDGE_CURVE")) = 3
            /\ Cardinality({FaceEdges(faces[1])[a] : a \in 1..3}) = 3
            /\ {FaceEdges(faces[1])[a] : a \in 1..3} = {FaceEdges(faces[2])[a] : a \in 1..3}

\* C10 witness: the returned conversion of a triangle followed by itself
C10_Witness ==
    /\ pc = "returned" /\ Len(mesh) = 2 /\ mesh[1] = mesh[2]
    /\ ~Degenerate(mesh[1], DegenerateTolerance)

\* C11: every ADVANCED_FACE of the returned list has one bound, a
\* FACE_OUTER_BOUND, and the list holds no FACE_BOUND; the bound's EDGE_LOOP
\* lists three ORIENTED_EDGEs, all with orientation true, that reference in
\* this order the edge curves the edge cache holds for (v0,v1), (v1,v2) and
\* (v2,v0) of the face's triangle; the face's geometry is a PLANE and its
\* same_sense is true.
C11_FaceBoundedByThreeEdges ==
    pc = "returned" =>
        LET faces == OfKind(c.entities, "ADVANCED_FACE")
        IN  /\ Positions(c.entities, {"FACE_BOUND"}) = {}
            /\ Len(faces) = Len(GoodTriangles)
            /\ \A k \in 1..Len(faces) :
                   LET face == faces[k]
                       t    == GoodTriangles[k]
                   IN  /\ Len(face.Bounds) = 1
                       /\ Ent(face.Bounds[1]).kind = "FACE_OUTER_BOUND"
                       /\ Ent(Ent(face.Bounds[1]).Bound).kind = "EDGE_LOOP"
                       /\ Len(Ent(Ent(face.Bounds[1]).Bound).EdgeList) = 3
                       /\ \A a \in 1..3 :
                              LET oe == Ent(Ent(Ent(face.Bounds[1]).Bound).EdgeList[a])
                                  e  == TriEdge(t, a)
                              IN  /\ oe.kind = "ORIENTED_EDGE"
                                  /\ oe.Orientation = TRUE
                                  /\ oe.EdgeElement = c.edgeCache[newEdgeKey(e[1], e[2])]
                                  /\ Ent(oe.EdgeElement).kind = "EDGE_CURVE"
                       /\ Ent(face.FaceGeometry).kind = "PLANE"
                       /\ face.SameSense = TRUE

\* C11 witness: a returned conversion of two triangles over the same corners
\* in opposite windings: the second face's loop runs over edge curves the
\* first face created in the other direction
C11_Witness ==
    /\ pc = "returned"
    /\ Len(mesh) = 2 /\ Len(faceIDs) = 2
    /\ mesh[1] # mesh[2]
    /\ SameCorners(mesh[1], mesh[2])
    /\ Len(OfKind(c.entities, "ORIENTED_EDGE")) = 6
    /\ Len(OfKind(c.entities, "EDGE_CURVE")) = 3

\* the lists ConvertMesh can return for the empty mesh and product name nm
EmptyMeshEntities(nm) ==
    LET r == ConvertMeshPrelude(NewMeshConverter, nm)
    IN  {mc.entities : mc \in ConvertMeshClosure(r.c, <<>>, r.geomContextID, r.pdsID)}

\* C12: for every mesh the returned list holds exactly one CLOSED_SHELL,
\* exactly one MANIFOLD_SOLID_BREP, whose outer shell is that shell, and
\* exactly one SHAPE_DEFINITION_REPRESENTATION; for the empty mesh the
\* shell's face list is empty; and the list returned for a mesh of
\* degenerate triangles only is the list returned for the empty mesh with
\* the same product name.
C12_OneShellOneSolid ==
    pc = "returned" =>
        LET shells == OfKind(c.entities, "CLOSED_SHELL")
            breps  == OfKind(c.entities, "MANIFOLD_SOLID_BREP")
            sdrs   == OfKind(c.entities, "SHAPE_DEFINITION_REPRESENTATION")
        IN  /\ Len(shells) = 1 /\ Len(breps) = 1 /\ Len(sdrs) = 1
            /\ breps[1].Outer = shells[1].id
            /\ mesh = <<>> => shells[1].Faces = <<>>
            /\ GoodTriangles = <<>> =>
                   /\ Cardinality(EmptyMeshEntities(name)) = 1
                   /\ c.entities \in EmptyMeshEntities(name)

\* C12 witness: a returned conversion of two degenerate triangles, one with
\* two equal corners and one with three corners on a line
C12_Witness ==
    /\ pc = "returned"
    /\ Len(mesh) = 2
    /\ mesh[1] # mesh[2]
    /\ GoodTriangles = <<>>
    /\ Len(OfKind(c.entities, "CLOSED_SHELL")) = 1

\* what the list the first call returned reads now: a list is a window on
\* its backing array, so it shows what the converter has since stored in
\* that array, if the converter's list still lives in it
ReturnedByFirst ==
    IF first.array = c.array
    THEN [k \in 1..Len(first.entities) |->
             IF k <= Len(c.entities) THEN c.entities[k] ELSE first.entities[k]]
    ELSE first.entities

\* C13: ConvertMesh resets the converter at entry.  In any sequence of calls
\* on one MeshConverter, the list a later call returns is one a new
\* converter can return for the same mesh and product name (what came before
\* has no part in it); its ids start at 1; every id
\* the point, direction and edge caches hold is the id of an entity of the
\* returned list that was made for the cached key; and the list the first
\* call returned still reads as it did when it was returned.
C13_ResetAtEntry ==
    /\ (pc = "returned" /\ calls >= 2) =>
           c.entities \in ConvertMesh(NewMeshConverter, mesh, name)
    /\ pc = "returned" =>
           /\ c.entities[1].id = 1
           /\ \A p \in DOMAIN c.pointCache :
                  /\ Ent(c.pointCache[p]).kind = "CARTESIAN_POINT"
                  /\ PointOf(c.pointCache[p]) = p
           /\ \A d \in DOMAIN c.normalCache :
                  /\ Ent(c.normalCache[d]).kind = "DIRECTION"
                  /\ DirectionOf(c.normalCache[d]) = d
           /\ \A key \in DOMAIN c.edgeCache :
                  Ent(c.edgeCache[key]).kind = "EDGE_CURVE"
    /\ first.done => ReturnedByFirst = first.entities

\* C13 witness: a second call has returned, for another mesh than the first
\* call's and a shorter list, which holds cached points
C13_Witness ==
    /\ pc = "returned" /\ calls = 2
    /\ first.done /\ mesh # first.mesh /\ name # first.name
    /\ Len(c.entities) < Len(first.entities)
    /\ Cardinality(DOMAIN c.pointCache) >= 3

\* C14: in the protocol in which the producer closes the queue and the
\* client then calls Finalize, Finalize does not panic: the queue is closed
\* once, Finalize waits for the collecting goroutine, writes and returns.
C14_FinalizeTerminatesNormally ==
    (entry = "stream" /\ prod = "closed") => fin # "panicked"

\* C15: with a StreamWriter and with ToSTEPWithOptions, the accumulator
\* followed by the batches still queued is at all times the concatenation
\* of the batches enqueued, in the order they were enqueued and each in its
\* own order; once the queue is closed and the goroutine is past its loop
\* nothing is left in the queue; and the mesh WriteMesh is called with is
\* the concatenation of all the batches enqueued.
C15_MeshIsConcatenation ==
    entry \in {"stream", "tostep"} =>
        /\ triangles \o Flatten(queue) = Flatten(sent)
        /\ coll = "done" => (queue = <<>> /\ triangles = Flatten(sent))
        /\ \A k \in 1..Len(handed) : handed[k] = Flatten(sent)

\* C15 witness: Finalize has written the mesh of two different batches of
\* triangles
C15_Witness ==
    /\ entry = "stream" /\ fin = "returned"
    /\ Len(sent) = 2 /\ sent[1] # sent[2] /\ sent[1] # <<>> /\ sent[2] # <<>>
    /\ Len(handed) = 1 /\ Len(handed[1]) = 3

\* C16: Finalize reads the triangle accumulator only after the collecting
\* goroutine has exited (after wg.Wait has returned): no read of Finalize
\* happens while the goroutine can still append.
C16_ReadsAfterCollectorExit == ~raced

\* C17: once the queue is closed, the collecting goroutine receives the
\* batches still queued and terminates, and the caller that waits for it
\* (Finalize, ToSTEPWithOptions) returns.
C17_ClosedLeadsToReturn ==
    closed ~> (queue = <<>> /\ coll = "done" /\ fin = "returned")

\* C18: the queue never holds more than 100 batches; no batch is enqueued in
\* a step from a state in which 100 are queued (the send waits until the
\* consumer has removed one); and the running consumer neither receives nor
\* terminates in a step from a state in which the queue is empty and open.
C18_QueueBounded ==
    /\ [](Len(queue) <= QueueCapacity)
    /\ [][Len(queue) = QueueCapacity => sent' = sent]_vars
    /\ [][(coll = "recv" /\ queue = <<>> /\ ~closed)
              => (coll' = "recv" /\ triangles' = triangles)]_vars

\* C18 witness: 100 batches are queued and the producer has another to send
C18_Witness ==
    /\ Len(queue) = QueueCapacity
    /\ prod = "run"
    /\ Len(sent) < QueueCapacity + MaxBatches

\* C19: when a write, a flush or the closing of the output file has failed,
\* ToSTEP / ToSTEPWithOptions and SaveSTEP / SaveSTEPWithOptions return an
\* error, not nil.
C19_ErrorsPropagate ==
    (entry \in {"tostep", "save"} /\ fin = "returned"
        /\ (w.err # "" \/ w.closeErr # ""))
    => result # "nil"

\* the operations of WriteMesh, in order
Sections == <<"header", "data", "footer", "flush">>

\* the operations a writer attempts from WriteMesh to the end of Close when
\* the bufio.Writer meets the error err ("" for none)
AttemptedUpTo(err) ==
    LET last == IF err = "" THEN Len(Sections)
                ELSE CHOOSE k \in 1..Len(Sections) : Sections[k] = err
    IN  SubSeq(Sections, 1, last) \o <<"flush", "close">>

\* C20: WriteMesh stops at the first write that fails and attempts no later
\* section; the DATA section holds the converted entities if its write
\* succeeded and nothing if not; when the enclosing operation has returned
\* the file is closed; and the error Finalize returns is the first error met
\* (the write or flush error if there is one, else the error of closing the
\* file, else nil).
C20_FirstErrorAndFileClosed ==
    /\ w.file = "closed" =>
           /\ w.log = AttemptedUpTo(w.err)
           /\ w.data = IF w.err \in {"header", "data"} THEN <<>> ELSE c.entities
    /\ (fin = "returned" /\ result # "create") => w.file = "closed"
    /\ (entry = "stream" /\ fin = "returned" /\ result # "create") =>
           result = IF w.err # "" THEN w.err
                    ELSE IF w.closeErr # "" THEN w.closeErr ELSE "nil"

\* C20 witness: Finalize has returned the error of the DATA section's write
\* although closing the file failed as well
C20_Witness ==
    /\ entry = "stream" /\ fin = "returned"
    /\ w.err = "data" /\ w.closeErr = "close"
    /\ result = "data"
    /\ w.file = "closed"

\* the lines of a complete file for the header fields of writer wr and the
\* entity list entities
FileLines(wr, entities) ==
    << TextLine("ISO-10303-21;"),
       TextLine("HEADER;"),
       TextLine("FILE_DESCRIPTION(('STEP AP214'),'1');"),
       FileNameLine(wr.authorName, wr.orgName),
       TextLine("FILE_SCHEMA(('AUTOMOTIVE_DESIGN'));"),
       TextLine("ENDSEC;"),
       TextLine("DATA;") >>
    \o [k \in 1..Len(entities) |-> EntityLine(entities[k])]
    \o << TextLine("ENDSEC;"), TextLine("END-ISO-10303-21;") >>

\* WriteMesh has returned nil: all four operations were attempted and the
\* bufio.Writer has met no error
WriteMeshSucceeded == Len(w.log) >= Len(Sections) /\ w.err = ""

\* C21: after a successful WriteMesh the lines written are, in this order
\* and with nothing else between or after them: the six header lines, DATA;,
\* one instance per entity of the converter's list, each entity once and in
\* the order of creation (ids 1, 2, ...), ENDSEC;, END-ISO-10303-21;.
C21_SectionsInOrder ==
    WriteMeshSucceeded =>
        /\ w.out = FileLines(w, c.entities)
        /\ Len(w.out) = Len(c.entities) + 9
        /\ \A k \in 1..Len(c.entities) :
               /\ w.out[7 + k].text = "#"
               /\ w.out[7 + k].entity.id = k

\* C21 witness: Finalize has returned nil after writing a file of two faces
C21_Witness ==
    /\ entry = "stream" /\ fin = "returned" /\ result = "nil"
    /\ WriteMeshSucceeded
    /\ Len(faceIDs) = 2
    /\ Len(w.out) > 40

\* the author, organization and product name the options o stand for
ResolvedAuthor(o) ==
    IF o.Author = "" /\ o.Organization = "" THEN "sdfx User"
    ELSE IF o.Author = "" THEN "Unknown" ELSE o.Author

ResolvedOrganization(o) ==
    IF o.Author = "" /\ o.Organization = "" THEN "sdfx Organization"
    ELSE IF o.Organization = "" THEN "Unknown" ELSE o.Organization

ResolvedProductName(o) == IF o.ProductName = "" THEN "sdfx_model" ELSE o.ProductName

StartPoint(oe) ==
    LET edge == Ent(oe.EdgeElement)
    IN  Ent(IF oe.Orientation THEN edge.EdgeStart ELSE edge.EdgeEnd).VertexGeometry

EndPoint(oe) ==
    LET edge == Ent(oe.EdgeElement)
    IN  Ent(IF oe.Orientation THEN edge.EdgeEnd ELSE edge.EdgeStart).VertexGeometry

\* C23: in every EDGE_LOOP of the returned list the oriented edges form a
\* head-to-tail cycle: each one ends at the CARTESIAN_POINT at which the
\* next one (the first, after the last) starts.
C23_LoopsHeadToTail ==
    pc = "returned" =>
        \A l \in Positions(c.entities, {"EDGE_LOOP"}) :
            LET edges == c.entities[l].EdgeList
            IN  \A k \in 1..Len(edges) :
                    EndPoint(Ent(edges[k])) = StartPoint(Ent(edges[(k % Len(edges)) + 1]))

\* C24: every reference in the returned list points to an entity with a
\* strictly smaller id than the entity that holds it (one created earlier):
\* no entity refers to itself or forwards.
C24_ReferencesPointBack ==
    pc = "returned" =>
        \A k \in 1..Len(c.entities) : \A r \in Refs(c.entities[k]) :
            /\ 1 <= r[1]
            /\ r[1] < c.entities[k].id

\* C24 witness: a returned list of two faces in which an oriented edge of
\* the second face refers to an edge curve made for the first
C24_Witness ==
    /\ pc = "returned" /\ Len(faceIDs) = 2
    /\ \E k \in Positions(c.entities, {"ORIENTED_EDGE"}) :
           /\ c.entities[k].id > faceIDs[1]
           /\ c.entities[k].EdgeElement < faceIDs[1]

\* the twelve entities every conversion under product name nm starts with
FirstTwelve(nm) ==
    << [kind |-> "APPLICATION_CONTEXT", id |-> 1, Application |-> "sdfx STEP Writer"],
       [kind |-> "LENGTH_UNIT", id |-> 2],
       [kind |-> "PLANE_ANGLE_UNIT", id |-> 3],
       [kind |-> "SOLID_ANGLE_UNIT", id |-> 4],
       [kind |-> "UNCERTAINTY_MEASURE_WITH_UNIT", id |-> 5, Value |-> DistanceAccuracy,
        Unit |-> 2, Name |-> "DISTANCE_ACCURACY_VALUE",
        Description |-> "Maximum model space distance between geometric entities"],
       [kind |-> "GEOMETRIC_REPRESENTATION_CONTEXT", id |-> 6, ContextIdentifier |-> "",
        ContextType |-> "3D", CoordinateSpaceDimension |-> 3,
        Uncertainty |-> <<5>>, Units |-> <<2, 3, 4>>],
       [kind |-> "PRODUCT_CONTEXT", id |-> 7, Name |-> "", FrameOfReference |-> 1,
        DisciplineType |-> "mechanical"],
       [kind |-> "PRODUCT", id |-> 8, Name |-> nm, Description |-> "Generated from sdfx",
        FrameOfReference |-> <<7>>],
       [kind |-> "PRODUCT_DEFINITION_FORMATION", id |-> 9, Description |-> "",
        OfProduct |-> 8],
       [kind |-> "PRODUCT_DEFINITION_CONTEXT", id |-> 10, Name |-> "",
        FrameOfReference |-> 1, LifeCycleStage |-> "design"],
       [kind |-> "PRODUCT_DEFINITION", id |-> 11, Description |-> "", Formation |-> 9,
        FrameOfReference |-> 10],
       [kind |-> "PRODUCT_DEFINITION_SHAPE", id |-> 12, Name |-> "", Description |-> "",
        Definition |-> 11] >>

\* the kinds of the entities made for triangles and for the closure
LaterKinds ==
    {"CARTESIAN_POINT", "DIRECTION", "VECTOR", "LINE", "VERTEX_POINT", "EDGE_CURVE",
     "ORIENTED_EDGE", "EDGE_LOOP", "FACE_OUTER_BOUND", "AXIS2_PLACEMENT_3D", "PLANE",
     "ADVANCED_FACE", "CLOSED_SHELL", "MANIFOLD_SOLID_BREP",
     "ADVANCED_BREP_SHAPE_REPRESENTATION", "SHAPE_DEFINITION_REPRESENTATION"}

\* C25: for every mesh and name the list starts with the twelve entities of
\* the prelude and the product chain, with ids 1..12 in the order
\* APPLICATION_CONTEXT, the three units, UNCERTAINTY_MEASURE_WITH_UNIT,
\* GEOMETRIC_REPRESENTATION_CONTEXT, PRODUCT_CONTEXT, PRODUCT (with the name
\* supplied), PRODUCT_DEFINITION_FORMATION, PRODUCT_DEFINITION_CONTEXT,
\* PRODUCT_DEFINITION, PRODUCT_DEFINITION_SHAPE, each referring to its
\* predecessors; everything made for a triangle or the closure comes later.
C25_PreludeFirst ==
    pc \in {"triangles", "returned"} =>
        /\ Len(c.entities) >= 12
        /\ SubSeq(c.entities, 1, 12) = FirstTwelve(name)
        /\ geomContextID = 6 /\ pdsID = 12
        /\ \A k \in 1..Len(c.entities) : c.entities[k].kind \in LaterKinds <=> k > 12

\* C25 witness: a returned list for the name Widget whose 13th entity is the
\* first point of the first of two faces
C25_Witness ==
    /\ pc = "returned" /\ name = "Widget" /\ Len(faceIDs) = 2
    /\ c.entities[8].kind = "PRODUCT" /\ c.entities[8].Name = "Widget"
    /\ c.entities[13].kind = "CARTESIAN_POINT"

\* the position of the CLOSED_SHELL in the list
ShellPosition == CHOOSE k \in Positions(c.entities, {"CLOSED_SHELL"}) : TRUE

\* the entities between the MANIFOLD_SOLID_BREP and the world placement
BeforePlacement == SubSeq(c.entities, ShellPosition + 2, Len(c.entities) - 3)

\* the kind and the value of a point or a direction
Leaf(e) ==
    IF e.kind = "CARTESIAN_POINT" THEN <<e.kind, e.Coordinates>>
    ELSE <<e.kind, e.DirectionRatios>>

\* the points and directions the world placement needs that the entities
\* before the shell do not provide: the origin if no point before is within
\* the tolerance of it, the unit Z and X directions if not there before
MissingForPlacement ==
    LET before == SubSeq(c.entities, 1, ShellPosition - 1)
        points == {k \in 1..Len(before) : before[k].kind = "CARTESIAN_POINT"}
        dirs   == {before[k].DirectionRatios
                   : k \in {j \in 1..Len(before) : before[j].kind = "DIRECTION"}}
        z      == Normalize(FVec(0, 0, 1))
        x      == Normalize(FVec(1, 0, 0))
    IN  (IF \E k \in points :
               Equals(Vec(before[k].Coordinates[1], before[k].Coordinates[2],
                          before[k].Coordinates[3]), Vec(0, 0, 0), tolerance)
         THEN <<>> ELSE << <<"CARTESIAN_POINT", <<0, 0, 0>> >> >>)
        \o (IF <<z.X, z.Y, z.Z>> \in dirs THEN <<>> ELSE << <<"DIRECTION", <<z.X, z.Y, z.Z>> >> >>)
        \o (IF <<x.X, x.Y, x.Z>> \in dirs THEN <<>> ELSE << <<"DIRECTION", <<x.X, x.Y, x.Z>> >> >>)

\* C26: in the returned list the closing entities come after every face
\* entity, in the order CLOSED_SHELL, MANIFOLD_SOLID_BREP, the world
\* AXIS2_PLACEMENT_3D (with only the origin point and the unit Z and X
\* directions before it, each only if not there already),
\* ADVANCED_BREP_SHAPE_REPRESENTATION, SHAPE_DEFINITION_REPRESENTATION; the
\* representation's items are the brep and the world placement, in this
\* order, its context is the geometric context (id 6); the
\* SHAPE_DEFINITION_REPRESENTATION is the last entity and links the
\* PRODUCT_DEFINITION_SHAPE (id 12) to the representation.
C26_ClosureLast ==
    pc = "returned" =>
        LET n     == Len(c.entities)
            shell == c.entities[ShellPosition]
            brep  == c.entities[ShellPosition + 1]
            place == c.entities[n - 2]
            rep   == c.entities[n - 1]
            sdr   == c.entities[n]
        IN  /\ Cardinality(Positions(c.entities, {"CLOSED_SHELL"})) = 1
            /\ \A k \in 13..(ShellPosition - 1) :
                   c.entities[k].kind \in
                       LaterKinds \ {"CLOSED_SHELL", "MANIFOLD_SOLID_BREP",
                                     "ADVANCED_BREP_SHAPE_REPRESENTATION",
                                     "SHAPE_DEFINITION_REPRESENTATION"}
            /\ shell.Faces = faceIDs
            /\ \A k \in 1..Len(faceIDs) : faceIDs[k] < shell.id
            /\ ShellPosition + 4 <= n
            /\ brep.kind = "MANIFOLD_SOLID_BREP" /\ brep.Outer = shell.id
            /\ \A k \in 1..Len(BeforePlacement) :
                   BeforePlacement[k].kind \in {"CARTESIAN_POINT", "DIRECTION"}
            /\ [k \in 1..Len(BeforePlacement) |-> Leaf(BeforePlacement[k])]
                   = MissingForPlacement
            /\ place.kind = "AXIS2_PLACEMENT_3D"
            /\ Equals(PointOf(place.Location), Vec(0, 0, 0), tolerance)
            /\ DirectionOf(place.Axis) = Normalize(FVec(0, 0, 1))
            /\ DirectionOf(place.RefDirection) = Normalize(FVec(1, 0, 0))
            /\ rep.kind = "ADVANCED_BREP_SHAPE_REPRESENTATION"
            /\ rep.Items = <<brep.id, place.id>>
            /\ rep.ContextOfItems = 6
            /\ c.entities[6].kind = "GEOMETRIC_REPRESENTATION_CONTEXT"
            /\ sdr.kind = "SHAPE_DEFINITION_REPRESENTATION"
            /\ sdr.Definition = 12 /\ sdr.UsedRepresentation = rep.id
            /\ c.entities[12].kind = "PRODUCT_DEFINITION_SHAPE"

\* C26 witness: a returned list of one face whose world placement found its
\* origin and one of its directions among the face's entities and had the
\* other direction made
C26_Witness ==
    /\ pc = "returned" /\ Len(faceIDs) = 1
    /\ Len(BeforePlacement) = 1
    /\ BeforePlacement[1].kind = "DIRECTION"

\* the entities the latest helper call has appended
Appended == SubSeq(c.entities, Len(call.before.entities) + 1, Len(c.entities))

\* the number of entities of a kind in a list
CountKind(list, kind) == Len(OfKind(list, kind))

\* C27: createEdgeCurve on a cache hit leaves the entity list, the id
\* counter and the three caches as they are and returns the cached id; on a
\* miss it appends two VERTEX_POINTs, one VECTOR, one LINE and one
\* EDGE_CURVE (same_sense true, from the vertex of the first argument to the
\* vertex of the second), and besides these only CARTESIAN_POINTs and
\* DIRECTIONs that were not cached, and caches the new edge under its key.
\* So in every list there are twice as many VERTEX_POINTs as EDGE_CURVEs
\* and as many VECTORs and LINEs as EDGE_CURVEs.
C27_EdgeCurveFrame ==
    /\ call.op = "createEdgeCurve" =>
           LET b   == call.before
               key == newEdgeKey(call.v1, call.v2)
               vps == OfKind(Appended, "VERTEX_POINT")
           IN  IF key \in DOMAIN b.edgeCache
               THEN /\ c.entities = b.entities
                    /\ c.idCounter = b.idCounter
                    /\ c.pointCache = b.pointCache
                    /\ c.normalCache = b.normalCache
                    /\ c.edgeCache = b.edgeCache
                    /\ call.id = b.edgeCache[key]
               ELSE /\ SubSeq(c.entities, 1, Len(b.entities)) = b.entities
                    /\ c.idCounter = b.idCounter + Len(Appended)
                    /\ CountKind(Appended, "VERTEX_POINT") = 2
                    /\ CountKind(Appended, "VECTOR") = 1
                    /\ CountKind(Appended, "LINE") = 1
                    /\ CountKind(Appended, "EDGE_CURVE") = 1
                    /\ \A k \in 1..Len(Appended) :
                           LET e == Appended[k]
                           IN  CASE e.kind = "CARTESIAN_POINT" ->
                                        /\ \A cached \in DOMAIN b.pointCache :
                                               ~Equals(cached, PointOf(e.id), tolerance)
                                        /\ PointOf(e.id) \in DOMAIN c.pointCache
                                        /\ c.pointCache[PointOf(e.id)] = e.id
                                 [] e.kind = "DIRECTION" ->
                                        /\ DirectionOf(e.id) \notin DOMAIN b.normalCache
                                        /\ c.normalCache[DirectionOf(e.id)] = e.id
                                 [] OTHER ->
                                        e.kind \in {"VERTEX_POINT", "VECTOR", "LINE",
                                                    "EDGE_CURVE"}
                    /\ DOMAIN c.pointCache
                           = DOMAIN b.pointCache
                             \cup {PointOf(Appended[k].id)
                                   : k \in Positions(Appended, {"CARTESIAN_POINT"})}
                    /\ DOMAIN c.normalCache
                           = DOMAIN b.normalCache
                             \cup {DirectionOf(Appended[k].id)
                                   : k \in Positions(Appended, {"DIRECTION"})}
                    /\ \A q \in DOMAIN b.pointCache : c.pointCache[q] = b.pointCache[q]
                    /\ \A d \in DOMAIN b.normalCache : c.normalCache[d] = b.normalCache[d]
                    /\ c.edgeCache = (key :> call.id) @@ b.edgeCache
                    /\ LET edge == Appended[Len(Appended)]
                       IN  /\ edge.kind = "EDGE_CURVE" /\ edge.id = call.id
                           /\ edge.SameSense = TRUE
                           /\ edge.EdgeStart = vps[1].id /\ edge.EdgeEnd = vps[2].id
                           /\ Equals(PointOf(vps[1].VertexGeometry), call.v1, tolerance)
                           /\ Equals(PointOf(vps[2].VertexGeometry), call.v2, tolerance)
    /\ CountKind(c.entities, "VERTEX_POINT") = 2 * CountKind(c.entities, "EDGE_CURVE")
    /\ CountKind(c.entities, "VECTOR") = CountKind(c.entities, "EDGE_CURVE")
    /\ CountKind(c.entities, "LINE") = CountKind(c.entities, "EDGE_CURVE")

\* C27 witness: a createEdgeCurve call that missed the edge cache and found
\* both points and the direction cached: it appended five entities
C27_Witness ==
    /\ call.op = "createEdgeCurve"
    /\ newEdgeKey(call.v1, call.v2) \notin DOMAIN call.before.edgeCache
    /\ call.before.edgeCache # EmptyMap
    /\ Len(Appended) = 5

\* the vertices of mesh m and the world origin
VerticesAndOrigin(m) == {m[k][a] : k \in 1..Len(m), a \in 1..3} \cup {Vec(0, 0, 0)}

\* the unordered vertex pairs that are edges of triangles of mesh m
EdgePairs(m) == {TriPair(m[k], a) : k \in 1..Len(m), a \in 1..3}

\* no triangle of m is degenerate, and any two of its vertices and the
\* world origin are the same point or farther apart than the tolerance
WellSeparated(m) ==
    /\ \A k \in 1..Len(m) : ~Degenerate(m[k], DegenerateTolerance)
    /\ \A p, q \in VerticesAndOrigin(m) : p = q \/ ~Equals(p, q, tolerance)

\* C28: for a mesh of non-degenerate triangles whose vertices and the world
\* origin are pairwise identical or farther apart than the tolerance, the
\* returned list has one CARTESIAN_POINT per distinct point among them,
\* one EDGE_CURVE per distinct unordered vertex pair that is a triangle
\* edge, and one ADVANCED_FACE per triangle: two triangles that share one
\* edge give 4 points, 5 edges and 2 faces; two that share only the vertex
\* (0,0,0) give 5 points, 6 edges and 2 faces.
C28_PointAndEdgeCounts ==
    (pc = "returned" /\ WellSeparated(mesh)) =>
        /\ CountKind(c.entities, "CARTESIAN_POINT") = Cardinality(VerticesAndOrigin(mesh))
        /\ CountKind(c.entities, "EDGE_CURVE") = Cardinality(EdgePairs(mesh))
        /\ CountKind(c.entities, "ADVANCED_FACE") = Len(mesh)
        /\ Len(mesh) = 2 =>
               LET shared == {mesh[1][a] : a \in 1..3} \cap {mesh[2][a] : a \in 1..3}
               IN  /\ Cardinality(shared) = 2 =>
                          /\ CountKind(c.entities, "CARTESIAN_POINT") = 4
                          /\ CountKind(c.entities, "EDGE_CURVE") = 5
                          /\ CountKind(c.entities, "ADVANCED_FACE") = 2
                   /\ shared = {Vec(0, 0, 0)} =>
                          /\ CountKind(c.entities, "CARTESIAN_POINT") = 5
                          /\ CountKind(c.entities, "EDGE_CURVE") = 6
                          /\ CountKind(c.entities, "ADVANCED_FACE") = 2

\* C28 witness: a returned conversion of two well separated triangles that
\* share one edge
C28_Witness ==
    /\ pc = "returned" /\ WellSeparated(mesh) /\ Len(mesh) = 2
    /\ Cardinality({mesh[1][a] : a \in 1..3} \cap {mesh[2][a] : a \in 1..3}) = 2
    /\ CountKind(c.entities, "EDGE_CURVE") = 5

\* o holds exactly the non-degenerate triangles of m, in the order of m
KeepsNonDegenerate(o, m) ==
    LET keep   == {j \in 1..Len(m) : ~Degenerate(m[j], DegenerateTolerance)}
        nth(k) == CHOOSE j \in keep : Cardinality({x \in keep : x <= j}) = k
    IN  /\ Len(o) = Cardinality(keep)
        /\ \A k \in 1..Len(o) : o[k] = m[nth(k)]

\* the mesh WriteMesh was last called with
Handed == handed[Len(handed)]

\* C30: OptimizeMesh keeps exactly the non-degenerate triangles, in their
\* order, and applying it twice gives what applying it once gives; the
\* lists ConvertMesh can return for the optimized mesh are those it can
\* return for the original mesh, so the entities of a file WriteMesh has
\* written after its pre-filter are a list the conversion of the unfiltered
\* mesh gives.
C30_OptimizeChangesNothing ==
    (handed # <<>> /\ pc = "returned") =>
        /\ mesh = OptimizeMesh(Handed)
        /\ KeepsNonDegenerate(mesh, Handed)
        /\ OptimizeMesh(mesh) = mesh
        /\ WriteMeshSucceeded =>
               LET unfiltered == ConvertMesh(NewMeshConverter, Handed, name)
               IN  /\ c.entities \in unfiltered
                   /\ w.data \in unfiltered
                   /\ ConvertMesh(NewMeshConverter, mesh, name) = unfiltered

\* C30 witness: WriteMesh was called with a mesh of which it converted two
\* triangles and dropped one
C30_Witness ==
    /\ handed # <<>> /\ pc = "returned" /\ WriteMeshSucceeded
    /\ Len(Handed) = 3 /\ Len(mesh) = 2
    /\ Len(faceIDs) = 2

\* the two vectors of whole numbers differ only by a positive scale factor
SameDirection(a, b) ==
    /\ Cross(a, b) = Vec(0, 0, 0)
    /\ a.X * b.X + a.Y * b.Y + a.Z * b.Z > 0

\* the float vector has length 1 to within a few units in the last place of
\* its squared length
UnitLength(d) ==
    LET off == FAdd(Dot(d, d), Float(-1))
    IN  off = Zero \/ off.e + MantissaBits <= 3 - MantissaBits

\* the DIRECTION entities of the converter
Directions == OfKind(c.entities, "DIRECTION")

ClosedLast(wr) ==
    /\ wr.file = "closed"
    /\ wr.log # <<>>
    /\ \A k \in 1..Len(wr.log) : wr.log[k] = "close" <=> k = Len(wr.log)

\* C31: in ToSTEPWithOptions the events come in the order renderer finished,
\* queue closed, collector drained, WriteMesh completed or failed, file
\* closed, return: the queue is closed only once the renderer is done and
\* nothing is enqueued afterwards; while the goroutine is in its loop
\* nothing has been converted or written and the file is open; the step
\* that converts and writes is taken with the queue closed and empty; when
\* the goroutine is done the file is closed, as the last operation on the
\* writer; and ToSTEPWithOptions returns nil only when the goroutine is
\* done.
C31_ReturnsAfterWriterTask ==
    /\ [](entry = "tostep" =>
            /\ closed => prod = "closed"
            /\ coll = "recv" =>
                   /\ w = ApplyOptions(NewWriter, opts)
                   /\ c = NewMeshConverter
                   /\ handed = <<>>
            /\ coll = "done" =>
                   /\ closed /\ queue = <<>>
                   /\ ClosedLast(w)
                   /\ handed = <<triangles>>
            /\ (fin = "returned" /\ result = "nil") => coll = "done")
    /\ [][(entry = "tostep" /\ closed) => sent' = sent]_vars
    /\ [][(entry = "tostep" /\ (w' # w \/ c' # c \/ handed' # handed))
              => (closed /\ queue = <<>> /\ triangles = Flatten(sent))]_vars
    /\ [][(entry = "tostep" /\ fin' = "returned" /\ fin # "returned")
              => (coll = "done" /\ ClosedLast(w))]_vars

\* C31 witness: ToSTEPWithOptions has returned after its goroutine has
\* collected two batches, converted them and written the whole file
C31_Witness ==
    /\ entry = "tostep" /\ fin = "returned" /\ result = "nil"
    /\ Len(sent) = 2 /\ sent[1] # <<>>
    /\ coll = "done"
    /\ Len(w.log) = 6
    /\ w.err = ""
    /\ Len(c.entities) > 0

\* every id the cache holds is the id of exactly one entity of the list,
\* which is of the kind, and no two keys hold the same id
CacheNames(cache, kind) ==
    /\ \A k \in DOMAIN cache :
           /\ Cardinality(Declaring(c.entities, cache[k])) = 1
           /\ Ent(cache[k]).kind = kind
    /\ \A j, k \in DOMAIN cache : cache[j] = cache[k] => j = k

\* C32: in every state of a conversion and of a run of helper calls (after
\* each whole step of ConvertMesh and each helper call) idCounter is the
\* length of the entity list plus one, every id of pointCache is the id of
\* a CARTESIAN_POINT of the list, every id of normalCache the id of a
\* DIRECTION, every id of edgeCache the id of an EDGE_CURVE, and no id is
\* held under two keys of one cache.
C32_CountersAndCachesConsistent ==
    /\ c.idCounter = Len(c.entities) + 1
    /\ CacheNames(c.pointCache, "CARTESIAN_POINT")
    /\ CacheNames(c.normalCache, "DIRECTION")
    /\ CacheNames(c.edgeCache, "EDGE_CURVE")

\* C32 witness: in the middle of a conversion, after a face has been made,
\* with several keys in each of the three caches
C32_Witness ==
    /\ pc = "triangles"
    /\ i > 1 /\ i <= Len(mesh)
    /\ faceIDs # <<>>
    /\ Cardinality(DOMAIN c.pointCache) >= 3
    /\ Cardinality(DOMAIN c.normalCache) >= 3
    /\ Cardinality(DOMAIN c.edgeCache) >= 3

====
